---- MODULE Spec2Model ----
(***************************************************************************)
(* Thermal print service (server.js): the print request handlers, the      *)
(* device commit, the system-printer fallback and the shared printer       *)
(* state, as a state machine over a bounded number of HTTP requests.       *)
(*                                                                         *)
(* Node runs the handlers on one event loop: a handler runs without        *)
(* interruption from its start to its first await, and again from the      *)
(* settlement of the awaited promise to its end.  execSync and the fs      *)
(* calls are synchronous, so printUsingSystemPrinter runs inside one such  *)
(* step.  Each action below is one such step.                              *)
(***************************************************************************)
EXTENDS Integers, Sequences, FiniteSets, TLC

\* ---------------------------------------------------------------- bounds
NumReq == 2
MaxPayments == 1
MaxItems == 1

Requests == 1..NumReq

\* ------------------------------------------------------- request inputs
Kinds == {"test", "shift", "sale", "fixed"}

\* A request body, reduced to what the handlers test or dereference.
\*   hasId, hasStore        : data.id, data.store (saleData.id, .store_read)
\*   hasPayments, nPayments : data.payments (saleData.sale_payments), length
\*   hasRegister/hasCashier : data.register, data.cashier
\*   hasComment             : opening_comment / closing_comment non-blank
\*   hasItems, nItems       : saleData.sale_items, its length
\*   itemsOk                : every item carries product_read
\*   template               : 0 = no template.style.components,
\*                            otherwise an index into Templates
FullBody ==
  [hasId |-> TRUE, hasStore |-> TRUE, hasPayments |-> TRUE,
   nPayments |-> MaxPayments, hasRegister |-> TRUE, hasCashier |-> TRUE,
   hasComment |-> FALSE, hasItems |-> TRUE, nItems |-> MaxItems,
   itemsOk |-> TRUE, template |-> 1]

\* bodies for /print-shift-closure
ShiftBodies ==
  { FullBody,
    [FullBody EXCEPT !.nPayments = 0, !.hasComment = TRUE],
    [FullBody EXCEPT !.hasId = FALSE],
    [FullBody EXCEPT !.hasStore = FALSE],
    [FullBody EXCEPT !.hasPayments = FALSE, !.nPayments = 0],
    [FullBody EXCEPT !.hasRegister = FALSE] }

\* bodies for /test-shift-closure-with-data
FixedBodies ==
  { FullBody,
    [FullBody EXCEPT !.hasCashier = FALSE] }

\* bodies for /print-sale-receipt
SaleBodies ==
  { FullBody,
    [FullBody EXCEPT !.template = 2, !.nItems = 0, !.nPayments = 0,
                     !.hasPayments = FALSE],
    [FullBody EXCEPT !.hasId = FALSE],
    [FullBody EXCEPT !.hasStore = FALSE],
    [FullBody EXCEPT !.hasItems = FALSE, !.nItems = 0],
    [FullBody EXCEPT !.template = 0],
    [FullBody EXCEPT !.itemsOk = FALSE] }

BodiesOf(k) ==
  CASE k = "test"  -> { FullBody }
    [] k = "shift" -> ShiftBodies
    [] k = "fixed" -> FixedBodies
    [] k = "sale"  -> SaleBodies

\* ----------------------------------------------------------- validation
\* the same check without !data.payments
ValidShiftDataNoPayments(b) == b.hasId /\ b.hasStore

\* a check that also asks for at least one payment entry
RequiresPaymentEntries(b) ==
  b.hasId /\ b.hasStore /\ b.hasPayments /\ b.nPayments > 0

\* if (!data || !data.id || !data.store || !data.payments)
ValidShiftData(b) == b.hasId /\ b.hasStore /\ b.hasPayments

\* if (!saleData || !saleData.id || !saleData.store_read || !saleData.sale_items)
ValidSaleData(b) == b.hasId /\ b.hasStore /\ b.hasItems

\* if (!template || !template.style || !template.style.components)
ValidTemplate(b) == b.template # 0

\* The request is answered 400 before anything is rendered.
\* /test-print and /test-shift-closure-with-data validate nothing.
Invalid(k, b) ==
  CASE k = "shift" -> ~ValidShiftData(b)
    [] k = "sale"  -> ~ValidSaleData(b) \/ ~ValidTemplate(b)
    [] OTHER       -> FALSE

\* ------------------------------------------------------- command stream
D(op, arg) == [op |-> op, arg |-> arg]
P(arg) == D("println", arg)
Line == D("drawLine", "")
NL == D("newLine", "")
Cut == D("cut", "")

RECURSIVE Repeat(_, _)
Repeat(s, n) == IF n = 0 THEN <<>> ELSE s \o Repeat(s, n - 1)

\* /test-print, printer.alignCenter() .. printer.cut()
RenderTest ==
  << D("alignCenter", ""), D("setTextDoubleHeight", ""), D("bold", "on"),
     P("title"), D("bold", "off"), D("setTextNormal", ""), Line,
     D("alignLeft", ""), P("printer"), P("width"), P("commands"), Line,
     P("time"), P("ok"), NL, NL, Cut >>

\* A rendering step: a printer directive, or (op = "eval") an expression the
\* handler evaluates without printing.  needs names the part of the body the
\* step dereferences; the step throws a TypeError when that part is absent.
S(op, arg, needs) == [op |-> op, arg |-> arg, needs |-> needs]
N(d) == S(d.op, d.arg, "")

Has(b, f) ==
  CASE f = ""         -> TRUE
    [] f = "store"    -> b.hasStore
    [] f = "register" -> b.hasRegister
    [] f = "cashier"  -> b.hasCashier
    [] f = "payments" -> b.hasPayments
    [] f = "items"    -> b.itemsOk

\* Number of steps that run before the first one that throws.
RunLen(steps, b) ==
  LET throwing == { i \in 1..Len(steps) : ~Has(b, steps[i].needs) }
  IN  IF throwing = {} THEN Len(steps)
      ELSE (CHOOSE i \in throwing : \A j \in throwing : i <= j) - 1

Directives(steps) ==
  LET sent == SelectSeq(steps, LAMBDA s : s.op # "eval")
  IN  [i \in 1..Len(sent) |-> D(sent[i].op, sent[i].arg)]

\* Result of running the rendering code of a handler on body b: the printer
\* buffer it leaves and whether it threw before reaching printer.execute().
Run(steps, b) ==
  LET n == RunLen(steps, b)
  IN  [buf |-> Directives(SubSeq(steps, 1, n)), threw |-> n < Len(steps)]

Header(title) ==
  << N(D("alignCenter", "")), N(D("setTextDoubleHeight", "")),
     N(D("bold", "on")), N(P(title)), N(D("bold", "off")),
     N(D("setTextNormal", "")), N(Line) >>

StoreSection ==
  << N(D("alignLeft", "")), S("println", "store.name", "store"),
     S("println", "store.address", "store"),
     S("println", "store.phone_number", "store"), N(Line) >>

TimeSection == << N(P("opened_at")), N(P("closed_at")), N(Line) >>

CashSection ==
  << N(D("bold", "on")), N(P("cash")), N(D("bold", "off")),
     N(P("opening_cash")), N(P("closing_cash")), N(Line) >>

PaymentsHeader ==
  << N(D("alignCenter", "")), N(D("bold", "on")), N(P("payments")),
     N(D("bold", "off")), N(D("alignLeft", "")), N(Line) >>

\* data.payments.forEach(...): four lines and a blank line per payment
PaymentEntry ==
  << N(P("payment.method")), N(P("payment.expected")), N(P("payment.actual")),
     N(P("payment.diff")), N(NL) >>

PaymentsSection(b) ==
  <<S("eval", "payments.forEach", "payments")>> \o Repeat(PaymentEntry, b.nPayments)

TotalsHeader ==
  << N(Line), N(D("alignCenter", "")), N(D("setTextDoubleHeight", "")),
     N(D("bold", "on")), N(P("totals")), N(D("bold", "off")),
     N(D("setTextNormal", "")), N(D("alignLeft", "")),
     N(P("total_expected")), N(P("total_actual")) >>

CommentsSection(b) ==
  IF b.hasComment
  THEN << N(P("comment.title")), N(P("comment")), N(Line) >>
  ELSE <<>>

Footer ==
  << N(NL), N(D("alignCenter", "")), N(P("thanks")), N(P("now")),
     N(NL), N(NL), N(Cut) >>

\* /print-shift-closure, from the header to printer.cut()
ShiftSteps(b) ==
  Header("shift") \o StoreSection
  \o << N(P("id")), S("println", "register.name", "register"),
        S("println", "cashier.name", "cashier"), N(Line) >>
  \o TimeSection \o CashSection
  \o << N(D("bold", "on")), N(P("stats")), N(D("bold", "off")),
        N(P("total_sales_count")), N(P("total_sales_amount")),
        N(P("total_debt_amount")), N(Line) >>
  \o PaymentsHeader \o PaymentsSection(b) \o TotalsHeader
  \o << N(D("bold", "on")), N(P("total_returns_amount")),
        N(P("total_debt_amount")), N(D("bold", "off")), N(D("bold", "off")),
        N(Line) >>
  \o CommentsSection(b) \o Footer

\* /test-shift-closure-with-data, from the header to printer.cut()
FixedSteps(b) ==
  Header("shift") \o StoreSection
  \o << N(P("id")), S("println", "register.name", "register"),
        S("println", "cashier.name", "cashier"),
        S("println", "cashier.role", "cashier"), N(Line) >>
  \o TimeSection \o CashSection
  \o << N(D("bold", "on")), N(P("operations")), N(D("bold", "off")),
        N(P("total_sales_count")), N(P("total_sales_amount")),
        N(P("total_returns_count")), N(P("total_returns_amount")),
        N(P("total_debt_amount")), N(P("total_income")),
        N(P("total_expense")), N(Line) >>
  \o PaymentsHeader \o PaymentsSection(b) \o TotalsHeader
  \o << N(Line), N(D("bold", "on")), N(P("status")), N(D("bold", "off")),
        N(P("is_active")), N(P("is_awaiting_approval")), N(P("is_approved")),
        N(Line) >>
  \o CommentsSection(b) \o Footer

\* ------------------------------------------------ sale receipt templates
\* A template component: type, enabled, order, styles.textAlign ("" when
\* absent), styles.fontWeight, styles.borderTop, and data: whether data.text
\* (text, footer) or data.url (logo) is present, with the lines of the text
\* after substitution (text.split("\n")).
C(type, enabled, order, align, weight, border, data, lines) ==
  [type |-> type, enabled |-> enabled, order |-> order, textAlign |-> align,
   fontWeight |-> weight, borderTop |-> border, data |-> data,
   lines |-> lines]

Templates ==
  << \* 1: a usual receipt, listed out of order, one component disabled
     << C("totals", TRUE, 4, "", "bold", FALSE, FALSE, <<>>),
        C("text", TRUE, 1, "center", "bold", FALSE, TRUE, <<"store", "address">>),
        C("logo", FALSE, 0, "", "normal", FALSE, TRUE, <<>>),
        C("itemList", TRUE, 3, "", "normal", FALSE, FALSE, <<>>),
        C("divider", TRUE, 2, "", "normal", TRUE, FALSE, <<>>),
        C("paymentList", TRUE, 5, "", "normal", FALSE, FALSE, <<>>),
        C("footer", TRUE, 6, "center", "normal", FALSE, TRUE, <<"thanks">>) >>,
     \* 2: a component of an unknown type and a text without data.text
     << C("qr", TRUE, 1, "", "normal", FALSE, TRUE, <<>>),
        C("text", TRUE, 1, "right", "normal", FALSE, FALSE, <<>>),
        C("logo", TRUE, 0, "", "normal", FALSE, TRUE, <<>>),
        C("divider", TRUE, 2, "", "normal", FALSE, FALSE, <<>>) >> >>

\* a filter that keeps every component
KeepAll(cs) == cs

\* template.style.components.filter((c) => c.enabled)
RECURSIVE FilterEnabled(_)
FilterEnabled(cs) ==
  IF cs = <<>> THEN <<>>
  ELSE IF Head(cs).enabled THEN <<Head(cs)>> \o FilterEnabled(Tail(cs))
  ELSE FilterEnabled(Tail(cs))

\* an insertion that places c before the elements of equal order
RECURSIVE InsertBeforeEqual(_, _)
InsertBeforeEqual(c, sorted) ==
  IF sorted = <<>> THEN <<c>>
  ELSE IF Head(sorted).order < c.order
       THEN <<Head(sorted)>> \o InsertBeforeEqual(c, Tail(sorted))
       ELSE <<c>> \o sorted

\* Array.prototype.sort((a, b) => a.order - b.order): a stable sort.
\* InsertByOrder places c after every element whose order is <= c.order.
RECURSIVE InsertByOrder(_, _)
InsertByOrder(c, sorted) ==
  IF sorted = <<>> THEN <<c>>
  ELSE IF Head(sorted).order <= c.order
       THEN <<Head(sorted)>> \o InsertByOrder(c, Tail(sorted))
       ELSE <<c>> \o sorted

RECURSIVE SortByOrder(_)
SortByOrder(cs) ==
  IF cs = <<>> THEN <<>>
  ELSE InsertByOrder(cs[Len(cs)], SortByOrder(SubSeq(cs, 1, Len(cs) - 1)))

\* function applyAlignment(printer, align)
applyAlignment(align) ==
  IF align = "center" THEN D("alignCenter", "")
  ELSE IF align = "right" THEN D("alignRight", "")
  ELSE D("alignLeft", "")

\* emphasis off whatever the weight
NeverBold(weight) == D("bold", "off")

\* function applyFontWeight(printer, weight)
applyFontWeight(weight) ==
  IF weight = "bold" THEN D("bold", "on") ELSE D("bold", "off")

OrElse(align, default) == IF align = "" THEN default ELSE align

\* the item numbered by its index, from zero
ZeroBasedName(i) == ToString(i - 1) \o ". item.name"

\* `${index + 1}. ${item.product_read.product_name}` of the i-th item
ItemName(i) == ToString(i) \o ". item.name"

\* `   ${formattedQty} ${unitName} x ${formattedPrice} = ${formattedSubtotal}`
ItemAmounts(i) == "   item.qty_price " \o ToString(i)

\* saleData.sale_items.forEach((item, index) => ...) for the i-th item: the
\* unit lookup dereferences item.product_read, then two lines are printed
ItemEntry(c, i) ==
  << S("eval", "item.product_read.available_units", "items"),
     N(D("bold", "on")), N(P(ItemName(i))),
     N(applyFontWeight(c.fontWeight)), N(P(ItemAmounts(i))) >>

\* the entries of the first n items, in item order
RECURSIVE ItemEntries(_, _)
ItemEntries(c, n) ==
  IF n = 0 THEN <<>> ELSE ItemEntries(c, n - 1) \o ItemEntry(c, n)

\* the two text lines of each of the first n items, in item order
RECURSIVE ItemLines(_)
ItemLines(n) ==
  IF n = 0 THEN <<>>
  ELSE ItemLines(n - 1) \o << "**" \o ItemName(n) \o "**", ItemAmounts(n) >>

\* a payment block that prints a dash for an empty or absent list
DashWhenEmpty(b) ==
  IF b.nPayments = 0 THEN <<N(P("-"))>>
  ELSE Repeat(<<N(P("payment.line"))>>, b.nPayments)

\* if (saleData.sale_payments && saleData.sale_payments.length > 0)
\*   saleData.sale_payments.forEach((payment) => printer.println(...))
PaymentLines(b) ==
  IF b.hasPayments /\ b.nPayments > 0
  THEN Repeat(<<N(P("payment.line"))>>, b.nPayments)
  ELSE <<>>

\* a default branch that prints the name of the type
TypeNamePrinted(c) == <<N(P(c.type))>>

\* default: console.log(`Unknown component type: ...`); break;
UnknownComponent(c) == <<>>

\* switch (component.type) of the command-stream loop
ComponentSteps(c, b) ==
  CASE c.type = "logo" ->
         IF c.data
         THEN << N(D("alignCenter", "")), N(P("[LOGO]")), N(NL) >>
         ELSE <<>>
    [] c.type \in {"text", "footer"} ->
         IF c.data
         THEN << N(applyAlignment(OrElse(c.textAlign, "left"))),
                 N(applyFontWeight(c.fontWeight)) >>
              \o [i \in 1..Len(c.lines) |-> N(P(c.lines[i]))]
              \o << N(D("bold", "off")), N(D("alignLeft", "")) >>
         ELSE <<>>
    [] c.type = "divider" ->
         IF c.borderTop THEN <<N(Line)>> ELSE <<N(NL)>>
    [] c.type = "itemList" ->
         ItemEntries(c, b.nItems) \o <<N(D("bold", "off"))>>
    [] c.type = "paymentList" ->
         << N(applyFontWeight(c.fontWeight)),
            N(applyAlignment(OrElse(c.textAlign, "left"))) >>
         \o PaymentLines(b)
         \o << N(D("bold", "off")), N(D("alignLeft", "")) >>
    [] c.type = "totals" ->
         << N(applyAlignment(OrElse(c.textAlign, "right"))),
            N(applyFontWeight(c.fontWeight)), N(P("total")),
            N(D("bold", "off")), N(D("setTextNormal", "")),
            N(D("alignLeft", "")) >>
    [] OTHER -> UnknownComponent(c)

RECURSIVE ComponentsSteps(_, _)
ComponentsSteps(cs, b) ==
  IF cs = <<>> THEN <<>>
  ELSE ComponentSteps(Head(cs), b) \o ComponentsSteps(Tail(cs), b)

\* const components = template.style.components.filter(...).sort(...)
EnabledSorted(cs) == SortByOrder(FilterEnabled(cs))

\* the enabled components of the request's template, sorted
SaleComponents(b) == EnabledSorted(Templates[b.template])

\* one blank line before the cut
ShortTrailer == << N(NL), N(Cut) >>

\* printer.newLine(); printer.newLine(); printer.cut();
Trailer == << N(NL), N(NL), N(Cut) >>

\* The command-stream rendering of a component list: the component loop,
\* then two blank lines and the cut.
TemplateSteps(cs, b) == ComponentsSteps(EnabledSorted(cs), b) \o Trailer

\* /print-sale-receipt, from the component loop to printer.cut()
SaleSteps(b) == TemplateSteps(Templates[b.template], b)

\* `**${text}**\n`: the marker opens the first line of the text and closes
\* its last line
Marked(lines) ==
  [i \in 1..Len(lines) |->
     (IF i = 1 THEN "**" ELSE "") \o lines[i]
     \o (IF i = Len(lines) THEN "**" ELSE "")]

\* switch (component.type) of the plain-text loop: the lines appended to
\* textContent, "**" standing for a bold marker
ComponentText(c, b) ==
  CASE c.type = "logo" ->
         IF c.data THEN << "[LOGO]", "" >> ELSE <<>>
    [] c.type \in {"text", "footer"} ->
         IF c.data
         THEN IF c.fontWeight = "bold" THEN Marked(c.lines) ELSE c.lines
         ELSE <<>>
    [] c.type = "divider" ->
         IF c.borderTop THEN <<"--------------------------------">> ELSE <<"">>
    [] c.type = "itemList" ->
         ItemLines(b.nItems)
    [] c.type = "paymentList" ->
         IF b.hasPayments THEN Repeat(<<"payment.line">>, b.nPayments) ELSE <<>>
    [] c.type = "totals" -> <<"**total**">>
    [] OTHER -> <<>>

RECURSIVE ComponentsText(_, _)
ComponentsText(cs, b) ==
  IF cs = <<>> THEN <<>>
  ELSE ComponentText(Head(cs), b) \o ComponentsText(Tail(cs), b)

\* The plain-text rendering of a component list: the fallback filters and
\* sorts the already filtered and sorted components again, renders them
\* and appends two newlines.
TemplateText(cs, b) ==
  ComponentsText(EnabledSorted(EnabledSorted(cs)), b) \o << "", "" >>

\* The rendering code between printer.clear() and printer.execute().
StepsOf(k, b) ==
  CASE k = "test"  -> [i \in 1..Len(RenderTest) |-> N(RenderTest[i])]
    [] k = "shift" -> ShiftSteps(b)
    [] k = "fixed" -> FixedSteps(b)
    [] k = "sale"  -> SaleSteps(b)

Render(k, b) == Run(StepsOf(k, b), b)

\* ${payments.map((payment) => `...`).join("\n")} of the plain-text
\* builders: four lines per payment, one empty line for an empty list
PaymentsText(b) ==
  IF b.nPayments = 0 THEN <<"">>
  ELSE Repeat(<< "payment.method", "payment.expected", "payment.actual",
                 "payment.diff" >>, b.nPayments)

\* the comment block of the plain-text builders and the rest of its line
CommentsText(b) ==
  (IF b.hasComment THEN << "comment.title", "comment", "----" >> ELSE <<>>)
  \o <<"">>

\* /test-print: const textContent = `...`, line by line
TestText ==
  << "title", "====", "printer", "width", "commands", "----", "time", "ok",
     "", "" >>

\* /print-shift-closure: const textContent = `...`, line by line
ShiftText(b) ==
  << "shift", "====", "store.name", "store.address", "store.phone_number",
     "----", "id", "register.name", "cashier.name", "----", "opened_at",
     "closed_at", "----", "cash", "opening_cash", "closing_cash", "----",
     "payments" >>
  \o PaymentsText(b)
  \o << "----", "totals", "total_expected", "total_actual",
        "total_returns_amount", "total_debt_amount", "====" >>
  \o CommentsText(b) \o << "thanks", "now", "", "" >>

\* /test-shift-closure-with-data: const textContent = `...`, line by line
FixedText(b) ==
  << "shift", "====", "store.name", "store.address", "store.phone_number",
     "----", "id", "register.name", "cashier.name", "cashier.role", "----",
     "opened_at", "closed_at", "----", "operations", "total_sales_count",
     "total_sales_amount", "total_returns_count", "total_returns_amount",
     "total_debt_amount", "total_income", "total_expense", "----", "cash",
     "opening_cash", "closing_cash", "----", "payments" >>
  \o PaymentsText(b)
  \o << "----", "totals", "total_expected", "total_actual",
        "total_returns_amount", "total_debt_amount", "----", "status",
        "is_active", "is_awaiting_approval", "is_approved", "====" >>
  \o CommentsText(b) \o << "thanks", "now", "", "" >>

\* The plain text the fallback hands to printUsingSystemPrinter.
TextOf(k, b) ==
  CASE k = "test"  -> TestText
    [] k = "shift" -> ShiftText(b)
    [] k = "fixed" -> FixedText(b)
    [] k = "sale"  -> TemplateText(Templates[b.template], b)

\* The parts of the body the plain-text builder of the fallback dereferences
\* (the textContent template literal; the second component loop of a sale).
TextNeeds(k, b) ==
  CASE k = "test"  -> {}
    [] k = "shift" -> {"store", "register", "cashier", "payments"}
    [] k = "fixed" -> {"store", "register", "cashier", "payments"}
    [] k = "sale"  ->
         IF b.nItems > 0
            /\ \E i \in 1..Len(SaleComponents(b)) :
                  SaleComponents(b)[i].type = "itemList"
         THEN {"items"} ELSE {}

\* Building the plain text throws (inside the fallback's try block).
TextThrows(k, b) == \E f \in TextNeeds(k, b) : ~Has(b, f)

\* ------------------------------------------------------- system printer
TempFile == "thermal_receipt.txt"
PsScript == "print_thermal.ps1"
CopyScript == "copy_print.ps1"
Paths == {TempFile, PsScript, CopyScript}

\* path.join(tempDir, 'thermal_receipt.txt'): the scratch file of request r
ScratchPath(r) == TempFile

NoName == "null"
PrinterNames == {"POS-58"}

\* The subprocesses printUsingSystemPrinter starts with execSync.
Subprocesses == {"detect", "status", "state", "raw", "copy", "lp"}

\* execSync(command, options): whether options carries a timeout.
ExecHasTimeout(call) == FALSE

\* How an execSync call can end: exit code 0, an error thrown (non-zero
\* exit, or the timeout when one is set), or never returning.
ExecOutcomes(call) ==
  IF ExecHasTimeout(call) THEN {"ok", "fail"} ELSE {"ok", "fail", "hang"}

\* fs.writeFileSync / fs.mkdirSync either succeed or throw.
FsOutcomes == {"ok", "fail"}

\* A delivery mechanism attempted through execSync, and how it ended.
A(call, outcome) == [call |-> call, outcome |-> outcome]

\* An outcome of printUsingSystemPrinter: how it ended, the files, the
\* cached name and the directory it leaves, the mechanisms it attempted.
SysResult(res, f, n, d, a) ==
  [result |-> res, files |-> f, name |-> n, dir |-> d, attempts |-> a]

\* the copy-to-printer method tried whatever the raw method did
TriesCopyAfterAny(o) == o \in {"ok", "fail"}

\* try { raw } catch (printError) { copy-to-printer }: the second method
\* runs when the raw method's execSync threw.
TriesCopyAfter(o) == o = "fail"

\* Both PowerShell scripts exit 1 ("No printer specified") when
\* $printerName is empty, so they can succeed only with a detected printer.
ScriptOutcomes(call, n) ==
  IF n = NoName THEN ExecOutcomes(call) \ {"ok"} ELSE ExecOutcomes(call)

\* catch (printError): the copy-to-printer method
CopyToPrinter(r, f, n, d, a) ==
  UNION { IF w = "fail"
          THEN { SysResult("throw", f, n, d, a) }
          ELSE LET f1 == f \cup {CopyScript}
               IN  { IF o = "ok"
                     THEN SysResult("ok",
                            ((f1 \ {CopyScript}) \ {PsScript}) \ {ScratchPath(r)},
                            n, d, Append(a, A("copy", o)))
                     ELSE IF o = "fail"
                     THEN SysResult("throw", f1, n, d, Append(a, A("copy", o)))
                     ELSE SysResult("hang", f1, n, d, Append(a, A("copy", o)))
                     : o \in ScriptOutcomes("copy", n) }
        : w \in FsOutcomes }

\* fs.writeFileSync(psScriptPath, ...) and the raw printing method
RawPrint(r, f, n, d) ==
  UNION { IF w = "fail"
          THEN { SysResult("throw", f, n, d, <<>>) }
          ELSE LET f1 == f \cup {PsScript}
               IN  UNION { IF o = "hang"
                           THEN { SysResult("hang", f1, n, d, <<A("raw", o)>>) }
                           ELSE IF TriesCopyAfter(o)
                           THEN CopyToPrinter(r, f1, n, d, <<A("raw", o)>>)
                           ELSE { SysResult("ok",
                                    (f1 \ {PsScript}) \ {ScratchPath(r)}, n, d,
                                    <<A("raw", o)>>) }
                           : o \in ScriptOutcomes("raw", n) }
        : w \in FsOutcomes }

\* if (windowsPrinterName) { statusCheck; stateCheck } with its own catch
StatusCheck(r, f, n, d) ==
  IF n = NoName THEN RawPrint(r, f, n, d)
  ELSE UNION { IF o1 = "hang" THEN { SysResult("hang", f, n, d, <<>>) }
               ELSE IF o1 = "fail" THEN RawPrint(r, f, n, d)
               ELSE UNION { IF o2 = "hang" THEN { SysResult("hang", f, n, d, <<>>) }
                            ELSE RawPrint(r, f, n, d)
                            : o2 \in ExecOutcomes("state") }
             : o1 \in ExecOutcomes("status") }

\* function detectWindowsThermalPrinter(): the name found, or null when no
\* printer matches or the PowerShell call throws
detectWindowsThermalPrinter(o) ==
  IF o = "ok" THEN PrinterNames \cup {NoName} ELSE {NoName}

\* a test that never finds a cached name
NeverCached(n) == FALSE

\* windowsPrinterName is truthy: a name was detected before
Cached(n) == n # NoName

\* if (!windowsPrinterName) windowsPrinterName = detectWindowsThermalPrinter()
Detect(r, f, n, d) ==
  IF Cached(n) THEN StatusCheck(r, f, n, d)
  ELSE UNION { IF o = "hang" THEN { SysResult("hang", f, n, d, <<>>) }
               ELSE UNION { StatusCheck(r, f, n1, d)
                            : n1 \in detectWindowsThermalPrinter(o) }
             : o \in ExecOutcomes("detect") }

\* printUsingSystemPrinter on win32: C:\Temp is created on demand, the
\* receipt text is written, then Detect .. RawPrint run
WindowsPrint(r, f, n, d) ==
  UNION { IF m = "fail" THEN { SysResult("throw", f, n, d, <<>>) }
          ELSE UNION { IF w = "fail" THEN { SysResult("throw", f, n, TRUE, <<>>) }
                       ELSE Detect(r, f \cup {ScratchPath(r)}, n, TRUE)
                     : w \in FsOutcomes }
        : m \in IF d THEN {"ok"} ELSE FsOutcomes }

\* printUsingSystemPrinter elsewhere: write the file, run lp, unlink
LpPrint(r, f, n, d) ==
  UNION { IF w = "fail" THEN { SysResult("throw", f, n, d, <<>>) }
          ELSE LET f1 == f \cup {ScratchPath(r)}
               IN  { IF o = "ok"
                     THEN SysResult("ok", f1 \ {ScratchPath(r)}, n, d,
                                    <<A("lp", o)>>)
                     ELSE IF o = "fail"
                     THEN SysResult("throw", f1, n, d, <<A("lp", o)>>)
                     ELSE SysResult("hang", f1, n, d, <<A("lp", o)>>)
                     : o \in ExecOutcomes("lp") }
        : w \in FsOutcomes }

\* async function printUsingSystemPrinter(content), called by request r with
\* files f on disk, cached printer name n and scratch directory present d:
\* the set of ways the call can end ("ok" = returns true, "throw",
\* "hang" = an execSync never returns), each with the files, name and
\* directory it leaves.
printUsingSystemPrinter(plat, r, f, n, d) ==
  IF plat = "win32" THEN WindowsPrint(r, f, n, d) ELSE LpPrint(r, f, n, d)

\* ------------------------------------------------ variable substitution
\* Strings are sequences of symbols.  A symbol is a piece of plain text
\* ("chr"), a placeholder {{name}} ("tok"), the replacement pattern $&
\* ("pat"), a number printed by toString() ("str") or a number printed by
\* toLocaleString("ru-RU") ("loc").
Sym(k, s, n) == [k |-> k, s |-> s, n |-> n]
Chr(s) == Sym("chr", s, 0)
Tok(name) == Sym("tok", name, 0)
Amp == Sym("pat", "$&", 0)
Str(n) == Sym("str", "", n)
Loc(n) == Sym("loc", "", n)

\* The keys of the replacements object, in the order Object.entries
\* yields them.
Tokens ==
  << "storePhone", "storeName", "storeAddress", "receiptNumber", "sale_id",
     "date", "time", "cashierName", "paymentMethod", "change",
     "returnAmount", "footerText", "total", "payments" >>

TokenNames == { Tokens[i] : i \in 1..Len(Tokens) }

RECURSIVE Join(_, _)
Join(parts, sep) ==
  IF parts = <<>> THEN <<>>
  ELSE IF Len(parts) = 1 THEN parts[1]
  ELSE parts[1] \o sep \o Join(Tail(parts), sep)

RECURSIVE SumAmounts(_)
SumAmounts(ps) ==
  IF ps = <<>> THEN 0 ELSE Head(ps).amount + SumAmounts(Tail(ps))

\* the second identifier whatever the first
Second(a, b) == b

\* a || b on identifiers: 0 stands for a falsy value (absent, null, 0, "")
Either(a, b) == IF a # 0 THEN a ELSE b

\* saleData.sale_payments?.reduce((sum, p) => sum + parseFloat(p.amount), 0) || 0
totalPaid(sd) ==
  IF sd.sale_payments.present THEN SumAmounts(sd.sale_payments.list) ELSE 0

\* the raw difference, not clamped
rawDifference(sd) == totalPaid(sd) - sd.total_amount

\* Math.max(0, totalPaid - totalAmount)
change(sd) ==
  IF totalPaid(sd) - sd.total_amount > 0
  THEN totalPaid(sd) - sd.total_amount ELSE 0

\* `${p.payment_method}: ${parseFloat(p.amount).toLocaleString("ru-RU")} UZS`
\* joined by "\n"; "" when the list is absent or empty
paymentsText(sd) ==
  IF sd.sale_payments.present
  THEN Join([i \in 1..Len(sd.sale_payments.list) |->
               sd.sale_payments.list[i].payment_method
               \o << Chr(": "), Loc(sd.sale_payments.list[i].amount),
                     Chr(" UZS") >>],
            <<Chr("\n")>>)
  ELSE <<>>

\* (saleData.sale_id || saleData.id)?.toString() || ""
SaleNumber(sd) ==
  IF Either(sd.sale_id, sd.id) = 0 THEN <<>>
  ELSE <<Str(Either(sd.sale_id, sd.id))>>

\* const replacements = { ... }: the value of each key
replacements(sd) ==
  [ name \in TokenNames |->
      CASE name = "storePhone"    -> sd.store_phone
        [] name = "storeName"     -> sd.store_name
        [] name = "storeAddress"  -> sd.store_address
        [] name = "receiptNumber" -> SaleNumber(sd)
        [] name = "sale_id"       -> SaleNumber(sd)
        [] name = "date"          -> <<Chr("date")>>
        [] name = "time"          -> <<Chr("time")>>
        [] name = "cashierName"   -> sd.worker_name
        [] name = "paymentMethod" ->
             IF sd.sale_payments.present
             THEN Join([i \in 1..Len(sd.sale_payments.list) |->
                          sd.sale_payments.list[i].payment_method],
                       <<Chr(", ")>>)
             ELSE <<>>
        [] name = "change"        -> <<Loc(change(sd))>>
        [] name = "returnAmount"  -> <<Loc(change(sd))>>
        [] name = "footerText"    -> <<Chr("thanks")>>
        [] name = "total"         -> <<Loc(sd.total_amount)>>
        [] name = "payments"      -> paymentsText(sd) ]

\* String.prototype.replace with a string as replacement: $& in it stands
\* for the matched text.
RECURSIVE Expand(_, _)
Expand(value, name) ==
  IF value = <<>> THEN <<>>
  ELSE (IF Head(value) = Amp THEN <<Tok(name)>> ELSE <<Head(value)>>)
       \o Expand(Tail(value), name)

\* result.replace(new RegExp(key, "g"), value): every occurrence of the key
\* is replaced; the inserted text is not scanned again in this pass.
RECURSIVE ReplaceAll(_, _, _)
ReplaceAll(t, name, value) ==
  IF t = <<>> THEN <<>>
  ELSE (IF Head(t) = Tok(name) THEN Expand(value, name) ELSE <<Head(t)>>)
       \o ReplaceAll(Tail(t), name, value)

\* for (const [key, value] of entries) result = result.replace(...), the
\* entries taken in the order keys
RECURSIVE SubstituteInOrder(_, _, _)
SubstituteInOrder(t, sd, keys) ==
  IF keys = <<>> THEN t
  ELSE SubstituteInOrder(ReplaceAll(t, Head(keys), replacements(sd)[Head(keys)]),
                         sd, Tail(keys))

\* function replaceTemplateVariables(text, saleData)
replaceTemplateVariables(t, sd) == SubstituteInOrder(t, sd, Tokens)

\* ----------------------------------------------------------- formatters
\* Numbers are held in thousandths: the value 1.5 is 1500.  An argument of
\* a formatter is a value of some type whose text starts with the digits
\* of a decimal number ("digits"), with Infinity, or with neither; rest is
\* what follows the number in a string.
Arg(type, lead, milli, rest) ==
  [type |-> type, lead |-> lead, milli |-> milli, rest |-> rest]

Abs(n) == IF n < 0 THEN -n ELSE n

\* parseFloat(x): the number the text of x starts with, NaN without one
parseFloat(a) ==
  CASE a.lead = "digits"   -> [k |-> "finite", milli |-> a.milli]
    [] a.lead = "Infinity" -> [k |-> "infinite", milli |-> 0]
    [] OTHER               -> [k |-> "nan", milli |-> 0]

\* A formatted text: the sign, the whole part, the fractional digits and
\* the suffix of a decimal ("dec"), or a word in place of the digits.
Formatted(k, neg, whole, frac, suffix) ==
  [k |-> k, neg |-> neg, whole |-> whole, frac |-> frac, suffix |-> suffix]

\* the fractional digits as they stand
KeepZeros(frac) == frac

\* .replace(/\.?0+$/, ''): the trailing zeros go, and the point with them
\* when no digit is left
RECURSIVE StripZeros(_)
StripZeros(frac) ==
  IF frac # <<>> /\ frac[Len(frac)] = 0
  THEN StripZeros(SubSeq(frac, 1, Len(frac) - 1))
  ELSE frac

\* n.toFixed(3) of a finite number: three fractional digits
toFixed3(m) ==
  Formatted("dec", m < 0, Abs(m) \div 1000,
            << (Abs(m) \div 100) % 10, (Abs(m) \div 10) % 10, Abs(m) % 10 >>, "")

\* function formatCurrency(amount): toLocaleString("uz-UZ") with
\* minimumFractionDigits = maximumFractionDigits = 2 rounds half away from
\* zero and prints NaN and Infinity as words; " UZS" is appended to
\* whatever it returns.  The grouping of the whole part is not shown.
formatCurrency(a) ==
  LET p == parseFloat(a)
      h == (Abs(p.milli) + 5) \div 10
  IN  CASE p.k = "nan"      -> Formatted("NaN", FALSE, 0, <<>>, " UZS")
        [] p.k = "infinite" -> Formatted("Infinity", FALSE, 0, <<>>, " UZS")
        [] OTHER ->
             Formatted("dec", p.milli < 0, h \div 100,
                       << (h \div 10) % 10, h % 10 >>, " UZS")

\* function formatNumber(num)
formatNumber(a) ==
  LET p == parseFloat(a)
  IN  IF p.k = "nan" THEN Formatted("dec", FALSE, 0, <<>>, "")
      ELSE IF p.k = "infinite" THEN Formatted("Infinity", FALSE, 0, <<>>, "")
      ELSE IF p.milli % 1000 = 0
      THEN Formatted("dec", p.milli < 0, Abs(p.milli) \div 1000, <<>>, "")
      ELSE [toFixed3(p.milli) EXCEPT !.frac = StripZeros(@)]

\* ------------------------------------------------------- engine inputs
MaxTextLen == 2
MaxSalePayments == 2
MaxComponents == 3
MaxOrder == 2

RECURSIVE SeqsUpTo(_, _)
SeqsUpTo(S_, n) ==
  IF n = 0 THEN { <<>> }
  ELSE LET shorter == SeqsUpTo(S_, n - 1)
       IN  shorter \cup { Append(q, x) : q \in { p \in shorter : Len(p) = n - 1 },
                                         x \in S_ }

\* an unrecognized placeholder
UnknownToken == Tok("discount")

\* what a text is made of: plain text, each recognized placeholder, an
\* unrecognized one, and a literal $&
Alphabet ==
  { Chr("x"), UnknownToken, Amp } \cup { Tok(name) : name \in TokenNames }

Texts == SeqsUpTo(Alphabet, MaxTextLen)

Pay(method, amount) == [payment_method |-> method, amount |-> amount]

\* payment lists: amounts below and above the total of the base record
PaymentLists ==
  SeqsUpTo({ Pay(<<Chr("cash")>>, 5000), Pay(<<Chr("card")>>, 10000) },
           MaxSalePayments)

BaseSale ==
  [store_phone |-> <<Chr("phone")>>, store_name |-> <<Chr("store")>>,
   store_address |-> <<Chr("address")>>, worker_name |-> <<Chr("cashier")>>,
   sale_id |-> 0, id |-> 104, total_amount |-> 12000,
   sale_payments |-> [present |-> TRUE, list |-> <<Pay(<<Chr("cash")>>, 15000)>>]]

\* the record before any call
NoSale ==
  [BaseSale EXCEPT !.id = 0, !.total_amount = 0,
                   !.sale_payments = [present |-> FALSE, list |-> <<>>]]

\* Records: the base record with its payments, its names or its
\* identifiers varied.  Names may be empty, hold placeholder text or $&.
SaleRecords ==
  { [BaseSale EXCEPT !.sale_payments = [present |-> TRUE, list |-> ps]]
      : ps \in PaymentLists }
  \cup { [BaseSale EXCEPT !.sale_payments = [present |-> FALSE, list |-> <<>>]] }
  \cup { [BaseSale EXCEPT !.store_name = n]
           : n \in { <<>>, <<Tok("cashierName")>>, <<Chr("A"), Amp>> } }
  \cup { [BaseSale EXCEPT !.worker_name = <<Tok("storeName")>>] }
  \cup { [BaseSale EXCEPT !.sale_payments =
             [present |-> TRUE, list |-> <<Pay(<<Tok("total")>>, 15000)>>]] }
  \cup { [BaseSale EXCEPT !.sale_id = s, !.id = i]
           : s \in {0, 7}, i \in {0, 104} }

\* Components the renderer is given: a text, a ruled divider and the
\* totals line, enabled or not, with every order up to MaxOrder.
ComponentChoices ==
  { C(type, en, ord, "", "normal", type = "divider", type = "text",
      IF type = "text" THEN <<"line">> ELSE <<>>)
      : type \in {"text", "divider", "totals"}, en \in BOOLEAN,
        ord \in 1..MaxOrder }

ComponentLists == SeqsUpTo(ComponentChoices, MaxComponents)

\* Receipts: short templates over components of every type and style, and
\* records with up to MaxLineItems items and an absent, empty or filled
\* payment list.
MaxParts == 2
MaxLineItems == 2

\* textAlign values: absent, the three the printer knows, and another one
Alignments == {"", "left", "center", "right", "justify"}

Parts ==
  { C("text", TRUE, 1, "center", "bold", FALSE, TRUE, <<"a">>),
    C("text", TRUE, 1, "right", "normal", FALSE, TRUE, <<"a", "b">>),
    C("text", TRUE, 1, "", "bold", FALSE, TRUE, <<"a", "b">>),
    C("text", TRUE, 1, "justify", "normal", FALSE, TRUE, <<"a">>),
    C("text", TRUE, 1, "center", "bold", FALSE, FALSE, <<>>),
    C("text", FALSE, 1, "", "normal", FALSE, TRUE, <<"a">>),
    C("footer", TRUE, 1, "center", "normal", FALSE, TRUE, <<"f">>),
    C("footer", TRUE, 1, "", "bold", FALSE, FALSE, <<>>),
    C("totals", TRUE, 1, "", "bold", FALSE, FALSE, <<>>),
    C("itemList", TRUE, 1, "", "normal", FALSE, FALSE, <<>>),
    C("itemList", TRUE, 1, "", "bold", FALSE, FALSE, <<>>),
    C("paymentList", TRUE, 1, "", "normal", FALSE, FALSE, <<>>),
    C("paymentList", TRUE, 1, "right", "bold", FALSE, FALSE, <<>>),
    C("divider", TRUE, 1, "", "normal", TRUE, FALSE, <<>>),
    C("divider", TRUE, 1, "", "normal", FALSE, FALSE, <<>>),
    C("logo", TRUE, 1, "", "normal", FALSE, TRUE, <<>>),
    C("logo", TRUE, 1, "", "normal", FALSE, FALSE, <<>>),
    C("qr", TRUE, 1, "center", "bold", TRUE, TRUE, <<"q">>) }
  \cup { C("totals", TRUE, 1, a, "normal", FALSE, FALSE, <<>>) : a \in Alignments }

Receipts == SeqsUpTo(Parts, MaxParts)

SaleShapes ==
  { [FullBody EXCEPT !.nItems = k, !.hasPayments = hp, !.nPayments = np]
      : k \in 0..MaxLineItems,
        hp \in BOOLEAN, np \in 0..MaxPayments }
  \ { [FullBody EXCEPT !.nItems = k, !.hasPayments = FALSE, !.nPayments = np]
        : k \in 0..MaxLineItems, np \in 1..MaxPayments }

\* Arguments of the formatters: every number and every decimal string
\* within MaxMilli thousandths of zero, a decimal followed by other text,
\* NaN and Infinity, and values without a number in them.
MaxMilli == 1500

Amounts ==
  { Arg(t, "digits", m, "") : t \in {"number", "string"}, m \in -MaxMilli..MaxMilli }
  \cup { Arg("string", "digits", 1500, "abc"),
         Arg("string", "none", 0, "abc"), Arg("string", "none", 0, ""),
         Arg("undefined", "none", 0, ""), Arg("number", "NaN", 0, ""),
         Arg("number", "Infinity", 0, ""), Arg("string", "Infinity", 0, "") }

\* no formatter called yet
NotFormatted == [currency |-> <<>>, number |-> <<>>]

\* replaceTemplateVariables has not returned yet
NotCalled == << Sym("none", "", 0) >>

\* ------------------------------------------------------ engine values
\* nothing rendered yet: no target done, both outputs empty
NotRendered == [targets |-> {}, buffer |-> <<>>, textContent |-> <<>>]

\* ---------------------------------------------------------------- state
VARIABLES
  platform,            \* process.platform: "win32" or "other"
  initialized,         \* initializePrinter() has run
  printerExists,       \* let printer: a ThermalPrinter object was created
  isDeviceReady,       \* let isDeviceReady
  windowsPrinterName,  \* let windowsPrinterName (NoName = null)
  tempDirExists,       \* the scratch directory exists
  files,               \* the transient files present on disk
  printerBuffer,       \* the command buffer of the shared printer object
  inflight,            \* requests whose printer.execute() promise is pending
  committed,           \* request -> the buffer it handed to printer.execute()
  pc,                  \* request -> "idle", "TryDevice" (awaiting the commit),
                       \*   "Overdue" (still awaiting it after the timeout
                       \*   period), "Hung" (inside an execSync that never
                       \*   returns), "Done"
  kind,                \* request -> endpoint
  body,                \* request -> request body
  resp,                \* request -> response sent (NoResp = none yet)
  trace,               \* request -> delivery states entered, with results
  sysCalls,            \* request -> calls of printUsingSystemPrinter
  scratch,             \* request -> scratch path its attempt used, "" = none
  hung,                \* request blocking the event loop in execSync, 0 = none
  ackedAt,             \* request -> number of calls its handler had made on
                       \*   the printer object (clear, directives, execute)
                       \*   when it sent its response, -1 = no response yet
  abandoned,           \* requests whose caller went away after the response
  attempts,            \* request -> delivery mechanisms its system-printer
                       \*   call attempted, in order, with their outcomes
  content,             \* request -> the plain text it handed to
                       \*   printUsingSystemPrinter, line by line
  \* the rendering engine and the substitution engine taken alone
  components,          \* template.style.components handed to the renderer
  rendered,            \* the targets rendered so far, with their output
  text,                \* replaceTemplateVariables: its text argument
  saleData,            \* replaceTemplateVariables: its saleData argument
  result,              \* replaceTemplateVariables: its return value
  \* the formatters taken alone
  amount,              \* the argument handed to the formatters
  record,              \* the sale record handed to the renderer
  formatted            \* what formatCurrency and formatNumber returned

vars == << platform, initialized, printerExists, isDeviceReady,
           windowsPrinterName, tempDirExists, files, printerBuffer, inflight,
           committed, pc, kind, body, resp, trace, sysCalls, scratch,
           hung, ackedAt, abandoned, attempts, content, components, rendered,
           text,
           saleData, result, amount, record, formatted >>

serverVars == << platform, initialized, printerExists, isDeviceReady,
                 windowsPrinterName, tempDirExists, files, printerBuffer,
                 inflight, committed, pc, kind, body, resp, trace, sysCalls,
                 scratch, hung, ackedAt, abandoned, attempts, content >>

engineVars == << components, rendered, text, saleData, result, amount,
                record, formatted >>

sharedVars == << platform, initialized, printerExists, isDeviceReady >>

NoResp == [status |-> 0, error |-> "", method |-> "", bufferSize |-> -1]
Resp(status, error, method, size) ==
  [status |-> status, error |-> error, method |-> method, bufferSize |-> size]

\* res.status(500).json({ error: "Printer not ...", printer_ready })
NotReadyResp == Resp(500, "DeviceNotReady", "absent", -1)
\* res.status(400).json({ error: "Invalid ... provided." })
InvalidResp == Resp(400, "InvalidRequest", "absent", -1)
\* res.status(500).json({ error: `Print failed: ${e.message}` })
PrintFailedResp == Resp(500, "PrintFailed", "absent", -1)
\* res.status(200).json({ message: "Test print initiated ...", status: "printing" })
InitiatedResp == Resp(200, "", "absent", -1)
\* res.status(200).json({ message, shift_id | sale_id, timestamp })
DeviceResp == Resp(200, "", "absent", -1)
\* res.status(200).json({ ..., method: "system_printer", ... })
SystemPrinterResp == Resp(200, "", "system_printer", -1)
\* res.status(200).json({ ..., buffer_size: buffer.length, method: "buffer_only" })
BufferOnlyResp(buf) == Resp(200, "", "buffer_only", Len(buf))

T(state, res) == [state |-> state, result |-> res]

\* the last delivery state of a trace gets its result
Settle(tr, res) == [tr EXCEPT ![Len(tr)].result = res]

\* no template rendered and no text substituted
EngineIdle ==
  /\ components = <<>>
  /\ rendered = NotRendered
  /\ text = <<>>
  /\ saleData = NoSale
  /\ result = NotCalled
  /\ amount = Arg("number", "digits", 0, "")
  /\ record = FullBody
  /\ formatted = NotFormatted

\* the server process before initializePrinter()
ServerInit ==
  /\ platform \in {"win32", "other"}
  /\ initialized = FALSE
  /\ printerExists = FALSE
  /\ isDeviceReady = FALSE
  /\ windowsPrinterName = NoName
  /\ tempDirExists = (platform # "win32")
  /\ files = {}
  /\ printerBuffer = <<>>
  /\ inflight = {}
  /\ committed = [r \in Requests |-> <<>>]
  /\ pc = [r \in Requests |-> "idle"]
  /\ kind = [r \in Requests |-> "test"]
  /\ body = [r \in Requests |-> FullBody]
  /\ resp = [r \in Requests |-> NoResp]
  /\ trace = [r \in Requests |-> <<>>]
  /\ sysCalls = [r \in Requests |-> 0]
  /\ scratch = [r \in Requests |-> ""]
  /\ hung = 0
  /\ ackedAt = [r \in Requests |-> -1]
  /\ abandoned = {}
  /\ attempts = [r \in Requests |-> <<>>]
  /\ content = [r \in Requests |-> <<>>]

Init == ServerInit /\ EngineIdle

\* async function initializePrinter(): one of the interfaces yields a
\* printer object, on which testPrinterConnection() clears the buffer and
\* prints one line, or every constructor call throws.
initializePrinter ==
  /\ ~initialized
  /\ initialized' = TRUE
  /\ \E ok \in BOOLEAN :
       /\ printerExists' = ok
       /\ isDeviceReady' = ok
       /\ printerBuffer' = IF ok THEN <<P("Connection test")>> ELSE printerBuffer
  /\ UNCHANGED << platform, windowsPrinterName, tempDirExists, files, inflight,
                  committed, pc, kind, body, resp, trace, sysCalls,
                  scratch, hung, ackedAt, abandoned, attempts, content >>
  /\ UNCHANGED engineVars

\* the same check with the negation of printer dropped
DeviceNotReadyHandleOnly == ~isDeviceReady /\ printerExists

\* if (!isDeviceReady || !printer)
DeviceNotReady == ~isDeviceReady \/ ~printerExists

\* every handler racing its commit against the timer
HasCommitTimeoutEverywhere(k) == TRUE

\* no handler answering before it renders
RespondsFirstNowhere(k) == FALSE

\* /test-print sends its response before printer.clear(); the other
\* handlers respond after the commit settled.
RespondsFirst(k) == k = "test"

\* Calls made on the printer object by a handler that reached
\* printer.execute(): clear(), the directives, execute().
CallsMade(r) == Len(committed[r]) + 2

\* Only /test-print races printer.execute() against a 5000 ms timer.
HasCommitTimeout(k) == k = "test"

\* The handler of r is suspended in await printer.execute().
Awaiting(r) == pc[r] \in {"TryDevice", "Overdue"}

\* The event loop can run a handler step: startup is over and no execSync
\* is blocking the process.
LoopFree == initialized /\ hung = 0

\* a handler that appends to whatever the printer object holds
KeepBuffer(buf) == buf

\* printer.clear(): the command buffer of the printer object is emptied
clear(buf) == <<>>

\* An HTTP handler up to its first await, for request r on endpoint k with
\* body b: no await stands between printer.clear() and printer.execute(),
\* which is handed the buffer of the printer object as it then is.
Handle(r, k, b) ==
  /\ LoopFree
  /\ pc[r] = "idle"
  /\ (IF r = 1 THEN TRUE ELSE pc[r - 1] # "idle")
  /\ b \in BodiesOf(k)
  /\ kind' = [kind EXCEPT ![r] = k]
  /\ body' = [body EXCEPT ![r] = b]
  /\ IF DeviceNotReady
     THEN /\ resp' = [resp EXCEPT ![r] = NotReadyResp]
          /\ ackedAt' = [ackedAt EXCEPT ![r] = 0]
          /\ pc' = [pc EXCEPT ![r] = "Done"]
          /\ trace' = [trace EXCEPT ![r] = <<T("Done", "")>>]
          /\ UNCHANGED << printerBuffer, inflight, committed >>
     ELSE IF Invalid(k, b)
     THEN /\ resp' = [resp EXCEPT ![r] = InvalidResp]
          /\ ackedAt' = [ackedAt EXCEPT ![r] = 0]
          /\ pc' = [pc EXCEPT ![r] = "Done"]
          /\ trace' = [trace EXCEPT ![r] = <<T("Done", "")>>]
          /\ UNCHANGED << printerBuffer, inflight, committed >>
     ELSE LET out == Render(k, b)
          IN  /\ printerBuffer' = clear(printerBuffer) \o out.buf
              /\ IF out.threw
                 THEN /\ resp' = [resp EXCEPT ![r] = PrintFailedResp]
                      /\ ackedAt' = [ackedAt EXCEPT ![r] = 1 + Len(out.buf)]
                      /\ pc' = [pc EXCEPT ![r] = "Done"]
                      /\ trace' = [trace EXCEPT ![r] = <<T("Done", "")>>]
                      /\ UNCHANGED << inflight, committed >>
                 ELSE /\ resp' = [resp EXCEPT ![r] =
                                    IF RespondsFirst(k) THEN InitiatedResp
                                    ELSE NoResp]
                      /\ ackedAt' = [ackedAt EXCEPT ![r] =
                                       IF RespondsFirst(k) THEN 0 ELSE -1]
                      /\ pc' = [pc EXCEPT ![r] = "TryDevice"]
                      /\ trace' = [trace EXCEPT ![r] = <<T("TryDevice", "pending")>>]
                      /\ inflight' = inflight \cup {r}
                      /\ committed' = [committed EXCEPT ![r] = printerBuffer']
  /\ UNCHANGED << sharedVars, windowsPrinterName, tempDirExists, files,
                  sysCalls, scratch, hung, abandoned, attempts, content >>
  /\ UNCHANGED engineVars

\* app.post("/test-print", ...)
TestPrint(r) == Handle(r, "test", FullBody)
\* app.post("/print-shift-closure", ...)
PrintShiftClosure(r) == \E b \in ShiftBodies : Handle(r, "shift", b)
\* app.post("/print-sale-receipt", ...)
PrintSaleReceipt(r) == \E b \in SaleBodies : Handle(r, "sale", b)
\* app.post("/test-shift-closure-with-data", ...)
TestShiftClosureWithData(r) == \E b \in FixedBodies : Handle(r, "fixed", b)

\* catch (systemError): printer.getBuffer() is read and buffer_only is sent.
\* /test-print only logs the error; its response went out before.
EnterBufferOnly(r, tr) ==
  IF kind[r] = "test"
  THEN /\ trace' = [trace EXCEPT ![r] = Append(Settle(tr, "failure"), T("Done", ""))]
       /\ UNCHANGED << resp, ackedAt >>
  ELSE /\ trace' = [trace EXCEPT ![r] =
                      Settle(tr, "failure")
                      \o << T("BufferOnly", "success"), T("Done", "") >>]
       /\ resp' = [resp EXCEPT ![r] = BufferOnlyResp(printerBuffer)]
       /\ ackedAt' = [ackedAt EXCEPT ![r] = CallsMade(r)]

\* catch (executeError): the plain text is built and handed to
\* printUsingSystemPrinter; its return sends system_printer, its throw (or a
\* throw while building the text) leads to the buffer_only branch.
Fallback(r) ==
  LET tr == Append(Settle(trace[r], "failure"), T("TrySystemPrinter", "pending"))
  IN  IF TextThrows(kind[r], body[r])
      THEN /\ EnterBufferOnly(r, tr)
           /\ pc' = [pc EXCEPT ![r] = "Done"]
           /\ UNCHANGED << windowsPrinterName, tempDirExists, files, sysCalls,
                           scratch, hung, attempts, content >>
      ELSE \E out \in printUsingSystemPrinter(platform, r, files,
                                             windowsPrinterName, tempDirExists) :
             /\ files' = out.files
             /\ windowsPrinterName' = out.name
             /\ tempDirExists' = out.dir
             /\ sysCalls' = [sysCalls EXCEPT ![r] = @ + 1]
             /\ attempts' = [attempts EXCEPT ![r] = out.attempts]
             /\ content' = [content EXCEPT ![r] = TextOf(kind[r], body[r])]
             /\ scratch' = [scratch EXCEPT ![r] =
                              IF out.dir THEN ScratchPath(r) ELSE ""]
             /\ CASE out.result = "ok" ->
                       /\ trace' = [trace EXCEPT ![r] =
                                      Append(Settle(tr, "success"), T("Done", ""))]
                       /\ resp' = [resp EXCEPT ![r] =
                                     IF kind[r] = "test" THEN @
                                     ELSE SystemPrinterResp]
                       /\ ackedAt' = [ackedAt EXCEPT ![r] =
                                        IF kind[r] = "test" THEN @
                                        ELSE CallsMade(r)]
                       /\ pc' = [pc EXCEPT ![r] = "Done"]
                       /\ hung' = hung
                  [] out.result = "throw" ->
                       /\ EnterBufferOnly(r, tr)
                       /\ pc' = [pc EXCEPT ![r] = "Done"]
                       /\ hung' = hung
                  [] out.result = "hang" ->
                       /\ trace' = [trace EXCEPT ![r] = tr]
                       /\ pc' = [pc EXCEPT ![r] = "Hung"]
                       /\ hung' = r
                       /\ UNCHANGED << resp, ackedAt >>

\* await printer.execute() resolves: the handler sends its success response.
\* A /test-print handler that already took the timeout branch ignores it.
ExecuteResolves(r) ==
  /\ LoopFree
  /\ r \in inflight
  /\ inflight' = inflight \ {r}
  /\ IF Awaiting(r)
     THEN /\ pc' = [pc EXCEPT ![r] = "Done"]
          /\ trace' = [trace EXCEPT ![r] =
                         Append(Settle(@, "success"), T("Done", ""))]
          /\ resp' = [resp EXCEPT ![r] =
                        IF kind[r] = "test" THEN @ ELSE DeviceResp]
          /\ ackedAt' = [ackedAt EXCEPT ![r] =
                           IF kind[r] = "test" THEN @ ELSE CallsMade(r)]
     ELSE UNCHANGED << pc, trace, resp, ackedAt >>
  /\ UNCHANGED << sharedVars, windowsPrinterName, tempDirExists, files,
                  printerBuffer, committed, kind, body, sysCalls, scratch,
                  hung, abandoned, attempts, content >>
  /\ UNCHANGED engineVars

\* await printer.execute() rejects: catch (executeError)
ExecuteRejects(r) ==
  /\ LoopFree
  /\ r \in inflight
  /\ inflight' = inflight \ {r}
  /\ IF Awaiting(r)
     THEN Fallback(r)
     ELSE UNCHANGED << pc, trace, resp, ackedAt, windowsPrinterName,
                       tempDirExists, files, sysCalls, scratch, hung,
                       attempts, content >>
  /\ UNCHANGED << sharedVars, printerBuffer, committed, kind, body, abandoned >>
  /\ UNCHANGED engineVars

\* 5000 ms pass while the commit of r is pending.  Where the handler armed
\* setTimeout(() => reject(new Error('Print timeout')), 5000), Promise.race
\* rejects and the catch branch runs, the commit itself staying pending;
\* elsewhere the handler just stays suspended.
TimeoutElapses(r) ==
  /\ LoopFree
  /\ pc[r] = "TryDevice"
  /\ r \in inflight
  /\ IF HasCommitTimeout(kind[r])
     THEN Fallback(r)
     ELSE /\ pc' = [pc EXCEPT ![r] = "Overdue"]
          /\ UNCHANGED << trace, resp, ackedAt, windowsPrinterName,
                          tempDirExists, files, sysCalls, scratch, hung,
                          attempts, content >>
  /\ UNCHANGED << sharedVars, printerBuffer, inflight, committed, kind, body,
                  abandoned >>
  /\ UNCHANGED engineVars

\* The caller of r closes its connection after it got its response while
\* the handler is still at work.  No handler listens for the close event:
\* nothing but the fact itself changes.
CallerDisconnects(r) ==
  /\ pc[r] = "TryDevice"
  /\ resp[r] # NoResp
  /\ r \notin abandoned
  /\ abandoned' = abandoned \cup {r}
  /\ UNCHANGED << sharedVars, windowsPrinterName, tempDirExists, files,
                  printerBuffer, inflight, committed, pc, kind, body, resp,
                  trace, sysCalls, scratch, hung, ackedAt, attempts, content >>
  /\ UNCHANGED engineVars

Next ==
  \/ initializePrinter
  \/ \E r \in Requests : TestPrint(r)
  \/ \E r \in Requests : PrintShiftClosure(r)
  \/ \E r \in Requests : PrintSaleReceipt(r)
  \/ \E r \in Requests : TestShiftClosureWithData(r)
  \/ \E r \in Requests : ExecuteResolves(r)
  \/ \E r \in Requests : ExecuteRejects(r)
  \/ \E r \in Requests : TimeoutElapses(r)
  \/ \E r \in Requests : CallerDisconnects(r)

Spec == Init /\ [][Next]_vars

\* The event loop runs the callback of a timer that is due as soon as it
\* is free: the 5000 ms timer of a pending /test-print commit fires.
FairSpec == Spec /\ \A r \in Requests : WF_vars(TimeoutElapses(r))

\* ------------------------------------------- the rendering engine alone
\* The sale renderer applied to a component list and a complete record,
\* first for the command stream and then, as in the fallback, for the
\* plain text.
RenderInit ==
  /\ ServerInit /\ platform = "other"
  /\ components \in ComponentLists
  /\ rendered = NotRendered
  /\ text = <<>> /\ saleData = NoSale /\ result = NotCalled
  /\ amount = Arg("number", "digits", 0, "") /\ formatted = NotFormatted
  /\ record = FullBody

\* template.style.components had sort been called on it directly:
\* Array.prototype.sort reorders its receiver in place
SortedInPlace(cs) == SortByOrder(cs)

\* template.style.components after
\*   template.style.components.filter((c) => c.enabled).sort(...):
\* filter builds a new array and sort reorders that new array, so the
\* array of the template keeps its elements, their order and their fields
AfterFilterSort(cs) == cs

RenderCommandStream ==
  /\ "command" \notin rendered.targets
  /\ rendered' = [rendered EXCEPT
                    !.targets = @ \cup {"command"},
                    !.buffer = Run(TemplateSteps(components, record), record).buf]
  /\ components' = AfterFilterSort(components)
  /\ UNCHANGED << serverVars, text, saleData, result, amount,
                  record, formatted >>

RenderPlainText ==
  /\ "command" \in rendered.targets
  /\ "text" \notin rendered.targets
  /\ rendered' = [rendered EXCEPT
                    !.targets = @ \cup {"text"},
                    !.textContent = TemplateText(components, record)]
  /\ UNCHANGED << serverVars, components, text, saleData, result, amount,
                  record, formatted >>

RenderNext == RenderCommandStream \/ RenderPlainText

RenderSpec == RenderInit /\ [][RenderNext]_vars

\* The same renderer applied to the receipts: every component type and
\* style over records of every shape.
ReceiptInit ==
  /\ ServerInit /\ platform = "other"
  /\ components \in Receipts
  /\ record \in SaleShapes
  /\ rendered = NotRendered
  /\ text = <<>> /\ saleData = NoSale /\ result = NotCalled
  /\ amount = Arg("number", "digits", 0, "") /\ formatted = NotFormatted

ReceiptSpec == ReceiptInit /\ [][RenderNext]_vars

\* --------------------------------------- the substitution engine alone
SubstInit ==
  /\ ServerInit /\ platform = "other"
  /\ components = <<>> /\ rendered = NotRendered
  /\ text \in Texts
  /\ saleData \in SaleRecords
  /\ result = NotCalled
  /\ amount = Arg("number", "digits", 0, "") /\ formatted = NotFormatted
  /\ record = FullBody

\* result = replaceTemplateVariables(text, saleData)
Substitute ==
  /\ result = NotCalled
  /\ result' = replaceTemplateVariables(text, saleData)
  /\ UNCHANGED << serverVars, components, rendered, text, saleData, amount,
                  record, formatted >>

SubstNext == Substitute

SubstSpec == SubstInit /\ [][SubstNext]_vars

\* ------------------------------------------------ the formatters alone
FormatInit ==
  /\ ServerInit /\ platform = "other"
  /\ components = <<>> /\ rendered = NotRendered
  /\ text = <<>> /\ saleData = NoSale /\ result = NotCalled
  /\ amount \in Amounts
  /\ record = FullBody
  /\ formatted = NotFormatted

\* formatCurrency(amount) returns
FormatCurrency ==
  /\ formatted.currency = <<>>
  /\ formatted' = [formatted EXCEPT !.currency = <<formatCurrency(amount)>>]
  /\ UNCHANGED << serverVars, components, rendered, text, saleData, result,
                  amount, record >>

\* formatNumber(amount) returns
FormatNumber ==
  /\ formatted.number = <<>>
  /\ formatted' = [formatted EXCEPT !.number = <<formatNumber(amount)>>]
  /\ UNCHANGED << serverVars, components, rendered, text, saleData, result,
                  amount, record >>

FormatNext == FormatCurrency \/ FormatNumber

FormatSpec == FormatInit /\ [][FormatNext]_vars

\* =============================================================== claims
Rank(state) ==
  CASE state = "TryDevice"        -> 1
    [] state = "TrySystemPrinter" -> 2
    [] state = "BufferOnly"       -> 3
    [] state = "Done"             -> 4

Templated(r) == pc[r] # "idle" /\ kind[r] \in {"shift", "sale", "fixed"}

\* C1: within one shift-closure, sale-receipt or fixed-data request the
\* delivery states run only in the order TryDevice, TrySystemPrinter,
\* BufferOnly, Done: each entered state is the immediate successor of a
\* failed one or is Done after a success, no state is entered twice, a
\* success is followed by Done directly, and the system printer is never
\* tried while the request's device commit is still in flight.
C1_ForwardOnlyFallback ==
  \A r \in Requests :
    Templated(r) =>
      LET tr == trace[r]
      IN  /\ \A i \in 1..Len(tr), j \in 1..Len(tr) :
                i < j => Rank(tr[i].state) < Rank(tr[j].state)
          /\ \A i \in 1..(Len(tr) - 1) :
                /\ tr[i].result \in {"success", "failure"}
                /\ tr[i].result = "success" => tr[i + 1].state = "Done"
                /\ tr[i].result = "failure" =>
                     Rank(tr[i + 1].state) = Rank(tr[i].state) + 1
          /\ Len(tr) > 0 /\ tr[1].state # "Done" => tr[1].state = "TryDevice"
          /\ r \in inflight => tr = <<T("TryDevice", "pending")>>

\* C1 witness: a shift closure went through all four states.
C1_Witness ==
  \E r \in Requests :
    /\ kind[r] = "shift"
    /\ Len(trace[r]) = 4
    /\ trace[r][3] = T("BufferOnly", "success")

MethodOf(state) ==
  CASE state = "TryDevice"        -> "device"
    [] state = "TrySystemPrinter" -> "system_printer"
    [] state = "BufferOnly"       -> "buffer_only"
    [] OTHER                      -> "absent"

\* C2: for every completed shift-closure or sale-receipt request in which a
\* delivery state succeeded, Done follows that state directly and the
\* response's method field names it: device, system_printer or buffer_only.
C2_MethodNamesSucceedingState ==
  \A r \in Requests :
    (pc[r] = "Done" /\ kind[r] \in {"shift", "sale"}) =>
      \A i \in 1..Len(trace[r]) :
        trace[r][i].result = "success" =>
          /\ i + 1 = Len(trace[r])
          /\ trace[r][i + 1].state = "Done"
          /\ resp[r].method = MethodOf(trace[r][i].state)

\* C3: once a call of printUsingSystemPrinter has ended, by return or by
\* throw, none of thermal_receipt.txt, print_thermal.ps1 and copy_print.ps1
\* is left on disk.
C3_NoTransientFileRemains == hung = 0 => files = {}

\* C4: two distinct requests never use the same scratch file path for their
\* system-printer attempts.
C4_ScratchPathPerRequest ==
  \A r1 \in Requests, r2 \in Requests :
    (r1 # r2 /\ scratch[r1] # "" /\ scratch[r2] # "") => scratch[r1] # scratch[r2]

\* C5: at most one printer.execute() against the shared printer is in
\* flight at any time.
C5_OneCommitInFlight == Cardinality(inflight) <= 1

\* C6: no request of any document type is still suspended on its device
\* commit once the timeout period has passed: the commit counts as failed
\* and the request moves on.
C6_CommitBoundedByTimeout == \A r \in Requests : pc[r] # "Overdue"

\* C7: no request is ever held inside an OS-level subprocess that does not
\* exit: each subprocess is cut off by its own timeout.
C7_SubprocessBoundedByTimeout == \A r \in Requests : pc[r] # "Hung"

\* required fields of the record, /test-shift-closure-with-data taking a
\* record of the shift-closure shape
MissingRequired(k, b) ==
  \/ k \in {"shift", "fixed"} /\ (~b.hasId \/ ~b.hasStore \/ ~b.hasPayments)
  \/ k = "sale" /\ (~b.hasId \/ ~b.hasStore \/ ~b.hasItems \/ b.template = 0)

\* C8: a request is answered with an error status only when required
\* fields are missing (InvalidRequest) or the device is not ready; every
\* other failure while rendering or delivering it ends in a success-status
\* response.
C8_ErrorsOnlyInvalidOrNotReady ==
  \A r \in Requests :
    resp[r].status >= 400 =>
      \/ ~isDeviceReady \/ ~printerExists
      \/ MissingRequired(kind[r], body[r])

\* C9: while the device is not ready (the flag is false or there is no
\* printer object) every print endpoint answers at once with the not-ready
\* error whatever the body, and nothing is attempted: the printer buffer is
\* never cleared or written, no commit is started, no system-printer call
\* is made and no scratch file is written.
C9_NotReadyNoAttempt ==
  (initialized /\ (~isDeviceReady \/ ~printerExists)) =>
    /\ \A r \in Requests :
         pc[r] # "idle" =>
           /\ pc[r] = "Done"
           /\ resp[r] = NotReadyResp
           /\ trace[r] = <<T("Done", "")>>
           /\ committed[r] = <<>>
           /\ sysCalls[r] = 0
           /\ scratch[r] = ""
    /\ printerBuffer = <<>>
    /\ inflight = {}
    /\ files = {}

\* C9 witness: with the device not ready, a complete sale request and a
\* shift closure without its id were both answered.
C9_Witness ==
  /\ initialized /\ ~isDeviceReady
  /\ \E r1 \in Requests, r2 \in Requests :
       /\ pc[r1] = "Done" /\ kind[r1] = "sale" /\ body[r1] = FullBody
       /\ pc[r2] = "Done" /\ kind[r2] = "shift" /\ ~body[r2].hasId

\* required fields missing, as the interface states them
LacksRequired(k, b) ==
  \/ k = "shift" /\ (~b.hasId \/ ~b.hasStore \/ ~b.hasPayments)
  \/ k = "sale" /\ (~b.hasId \/ ~b.hasStore \/ ~b.hasItems \/ b.template = 0)

C10_Answered ==
  \A r \in Requests :
    (isDeviceReady /\ printerExists /\ pc[r] # "idle"
       /\ LacksRequired(kind[r], body[r])) =>
      /\ pc[r] = "Done"
      /\ resp[r] = InvalidResp
      /\ trace[r] = <<T("Done", "")>>
      /\ committed[r] = <<>>
      /\ sysCalls[r] = 0

C10_Step ==
  \A r \in Requests :
    (isDeviceReady /\ printerExists /\ pc[r] = "idle" /\ pc'[r] # "idle"
       /\ LacksRequired(kind'[r], body'[r])) =>
      /\ printerBuffer' = printerBuffer
      /\ inflight' = inflight
      /\ files' = files

\* C10: with the device ready, a shift closure lacking id, store or payments
\* and a sale lacking id, store, items or the template's component list is
\* answered 400 InvalidRequest and nothing is attempted: the step that
\* answers it leaves the printer buffer, the commits in flight and the
\* scratch files as they were, and no commit or system-printer call is ever
\* made for it.
C10_InvalidRequestNoAttempt == [] C10_Answered /\ [][C10_Step]_vars

\* C10 witness: a shift closure without payments and a sale without a
\* component list were both answered 400 while the buffer held a rendering.
C10_Witness ==
  /\ isDeviceReady
  /\ \E r1 \in Requests, r2 \in Requests :
       /\ kind[r1] = "shift" /\ ~body[r1].hasPayments /\ resp[r1] = InvalidResp
       /\ kind[r2] = "sale" /\ body[r2].template = 0 /\ resp[r2] = InvalidResp

\* C11: a request that ended in BufferOnly made no further transmission
\* (its commit is over, it called the system printer at most once, it is
\* Done) and the buffer_size it reported is the size of the command stream
\* rendered for that same request, whatever other requests did to the
\* shared printer buffer while it waited for its commit.
C11_BufferSizeOfOwnRendering ==
  \A r \in Requests :
    resp[r].method = "buffer_only" =>
      /\ pc[r] = "Done"
      /\ sysCalls[r] <= 1
      /\ trace[r][Len(trace[r])] = T("Done", "")
      /\ resp[r].bufferSize = Len(committed[r])

\* a /test-print request that passed the readiness guard
TestAccepted(r) == kind[r] = "test" /\ pc[r] # "idle" /\ resp[r] # NotReadyResp

C12_AckFirst ==
  \A r \in Requests :
    TestAccepted(r) => resp[r] = InitiatedResp /\ ackedAt[r] = 0

C12_AckKept ==
  \A r \in Requests :
    (TestAccepted(r) /\ resp[r] = InitiatedResp) =>
      resp'[r] = InitiatedResp /\ ackedAt'[r] = ackedAt[r]

C12_Completes ==
  \A r \in Requests :
    (TestAccepted(r) /\ pc[r] = "TryDevice") ~> (pc[r] = "Done" \/ hung # 0)

FallbackDiscipline(tr) ==
  \A i \in 1..Len(tr) :
    tr[i].result = "failure" =>
      /\ i < Len(tr)
      /\ tr[i].state = "TryDevice" => tr[i + 1].state = "TrySystemPrinter"
      /\ tr[i].state = "TrySystemPrinter" =>
           /\ i + 2 = Len(tr)
           /\ tr[i + 1].state = "BufferOnly"
           /\ tr[i + 2].state = "Done"

\* C13: the diagnostic test receipt, the shift-closure summary and the
\* fixed-data diagnostic follow the fallback state machine of the sale
\* receipt: after a failed device commit the system printer is tried, and
\* after a failed system printer BufferOnly is entered before Done.
C13_FixedBuildersSameFallback ==
  \A r \in Requests :
    (pc[r] # "idle" /\ kind[r] \in {"test", "shift", "fixed"}) =>
      FallbackDiscipline(trace[r])

\* The kind of delivery mechanism an execSync call is: the winspool RAW job
\* is the spooler bypass; copy-to-printer / Out-Printer and lp hand the
\* file to the print queue.
Mechanism(call) == IF call = "raw" THEN "bypass" ELSE "queue"

\* result of the TrySystemPrinter state of request r, "none" if not entered
SysOutcome(r) ==
  IF \E i \in 1..Len(trace[r]) : trace[r][i].state = "TrySystemPrinter"
  THEN (CHOOSE e \in { trace[r][i] : i \in 1..Len(trace[r]) } :
          e.state = "TrySystemPrinter").result
  ELSE "none"

\* request r called printUsingSystemPrinter and the call has ended
SysEnded(r) == sysCalls[r] > 0 /\ pc[r] = "Done"

CallsOf(plat) == IF plat = "win32" THEN <<"raw", "copy">> ELSE <<"lp">>

IsEnabled(c) == c.enabled

\* the given component list without its disabled entries
Kept == SelectSeq(components, IsEnabled)

\* C15: a component with enabled = false contributes nothing to either
\* rendering: the command stream and the plain text of a component list
\* are those of the list with its disabled entries removed, and a list of
\* disabled components only renders the bare trailer.
C15_DisabledNeverRendered ==
  /\ "command" \in rendered.targets =>
       /\ rendered.buffer = Run(TemplateSteps(Kept, FullBody), FullBody).buf
       /\ Kept = <<>> => rendered.buffer = << NL, NL, Cut >>
  /\ "text" \in rendered.targets =>
       /\ rendered.textContent = TemplateText(Kept, FullBody)
       /\ Kept = <<>> => rendered.textContent = << "", "" >>

\* C15 witness: a list with a disabled text between two enabled components
\* was rendered for both targets.
C15_Witness ==
  /\ rendered.targets = {"command", "text"}
  /\ Len(components) = 3
  /\ components[1].enabled /\ components[3].enabled
  /\ ~components[2].enabled /\ components[2].type = "text"

\* the permutations of 1..n, as sequences
Perms(n) ==
  { p \in [1..n -> 1..n] : \A i \in 1..n, j \in 1..n : i # j => p[i] # p[j] }

\* the order a stable sort by the order field visits the entries of en in:
\* non-decreasing order, entries of equal order by original position
StableOrder(en) ==
  CHOOSE p \in Perms(Len(en)) :
    \A i \in 1..Len(en), j \in 1..Len(en) :
      i < j => \/ en[p[i]].order < en[p[j]].order
               \/ en[p[i]].order = en[p[j]].order /\ p[i] < p[j]

\* the enabled components, one after the other in that order
InStableOrder == [i \in 1..Len(Kept) |-> Kept[StableOrder(Kept)[i]]]

\* the lists that hold the entries of the given list in another position
\* while the enabled ones keep their relative order
Rearranged ==
  { [i \in 1..Len(components) |-> components[q[i]]]
      : q \in { p \in Perms(Len(components)) :
                  SelectSeq([i \in 1..Len(components) |-> components[p[i]]],
                            IsEnabled) = Kept } }

\* C16: in both targets the output is that of the enabled components taken
\* in non-decreasing order of their order field, those of equal order in
\* their original relative position; and every list that holds the same
\* entries with the enabled ones in the same relative order, wherever the
\* other entries stand, renders to the same output.
C16_StableOrderedRendering ==
  /\ "command" \in rendered.targets =>
       /\ rendered.buffer =
            Directives(ComponentsSteps(InStableOrder, FullBody))
            \o << NL, NL, Cut >>
       /\ \A cs \in Rearranged :
            Run(TemplateSteps(cs, FullBody), FullBody).buf = rendered.buffer
  /\ "text" \in rendered.targets =>
       /\ rendered.textContent =
            ComponentsText(InStableOrder, FullBody) \o << "", "" >>
       /\ \A cs \in Rearranged :
            TemplateText(cs, FullBody) = rendered.textContent

\* C16 witness: two enabled components of equal order with different
\* output follow, in the list, an enabled one of higher order; both targets
\* were rendered.
C16_Witness ==
  /\ rendered.targets = {"command", "text"}
  /\ Len(components) = 3
  /\ \A i \in 1..3 : components[i].enabled
  /\ components[1].order > components[2].order
  /\ components[2].order = components[3].order
  /\ components[2].type = "text" /\ components[3].type = "divider"

\* the sum of the payment amounts of a record, 0 without payments
PaidOf(sd) ==
  IF sd.sale_payments.present /\ Len(sd.sale_payments.list) > 0
  THEN LET amt == [i \in 1..Len(sd.sale_payments.list) |->
                     sd.sale_payments.list[i].amount]
           sum[i \in 0..Len(amt)] == IF i = 0 THEN 0 ELSE sum[i - 1] + amt[i]
       IN  sum[Len(amt)]
  ELSE 0

\* the larger of 0 and n
AtLeastZero(n) == CHOOSE m \in {0, n} : m >= 0 /\ m >= n

\* what the placeholder alone resolves to
Resolved(name) == replaceTemplateVariables(<<Tok(name)>>, saleData)

\* C17: {{change}} and its alias {{returnAmount}} resolve to the same
\* value, max(0, totalPaid - totalAmount) in locale format, totalPaid being
\* the sum of the record's payment amounts and 0 when the payments list is
\* empty or absent; the value is never negative.
C17_ChangeClampedAtZero ==
  (result # NotCalled /\ text \in { <<Tok("change")>>, <<Tok("returnAmount")>> }) =>
    /\ result = << Loc(AtLeastZero(PaidOf(saleData) - saleData.total_amount)) >>
    /\ result[1].n >= 0
    /\ Resolved("change") = Resolved("returnAmount")
    /\ Resolved("change") = result

\* C17 witness: {{returnAmount}} was resolved for payments of 5000 and
\* 10000 against a total of 12000, and the change is 3000.
C17_Witness ==
  /\ text = <<Tok("returnAmount")>>
  /\ saleData.total_amount = 12000
  /\ saleData.sale_payments.present
  /\ Len(saleData.sale_payments.list) = 2
  /\ PaidOf(saleData) = 15000
  /\ result = << Loc(3000) >>

Recognized(sym) == sym.k = "tok" /\ sym.s \in TokenNames

\* every recognized placeholder of t replaced by its resolved value, in
\* one pass, everything else kept
SubstituteOnce(t, sd) ==
  LET piece[i \in 1..Len(t)] ==
        IF Recognized(t[i]) THEN replacements(sd)[t[i].s] ELSE <<t[i]>>
      upTo[i \in 0..Len(t)] == IF i = 0 THEN <<>> ELSE upTo[i - 1] \o piece[i]
  IN  upTo[Len(t)]

\* C18: the text replaceTemplateVariables returns is the given text with
\* every occurrence of every recognized placeholder replaced by its
\* resolved value and with every unrecognized placeholder and all other
\* text as it was.
C18_EveryTokenReplacedVerbatim ==
  result # NotCalled => result = SubstituteOnce(text, saleData)

RECURSIVE Reverse(_)
Reverse(q) == IF q = <<>> THEN <<>> ELSE Append(Reverse(Tail(q)), Head(q))

\* the keys taken in another order: reversed, or starting at the i-th key
OtherOrders ==
  { Reverse(Tokens) }
  \cup { SubSeq(Tokens, i, Len(Tokens)) \o SubSeq(Tokens, 1, i - 1)
           : i \in 2..Len(Tokens) }

\* the recognized placeholders inside the resolved values of the
\* placeholders of t
CarriedTokens(t, sd) ==
  UNION { { replacements(sd)[t[i].s][j] : j \in 1..Len(replacements(sd)[t[i].s]) }
            : i \in { k \in 1..Len(t) : Recognized(t[k]) } }

\* C19: the text returned does not depend on the order the placeholders
\* are resolved in, also for records whose store name, cashier name or
\* payment method hold placeholder text: resolving them in any other order
\* returns the same text, and a placeholder that came in with a resolved
\* value is still in the result, not substituted in its turn.
C19_OrderIrrelevant ==
  result # NotCalled =>
    /\ \A keys \in OtherOrders :
         SubstituteInOrder(text, saleData, keys) = result
    /\ \A sym \in CarriedTokens(text, saleData) :
         Recognized(sym) => \E j \in 1..Len(result) : result[j] = sym

ParsesFinite == parseFloat(amount).k = "finite"

\* C21: formatCurrency fails with InvalidAmount for every argument that
\* does not parse to a finite number, and for every argument that does
\* returns the amount with exactly two fractional digits followed by the
\* currency suffix.
C21_InvalidAmountOrTwoDigits ==
  formatted.currency # <<>> =>
    LET out == formatted.currency[1]
    IN  IF ParsesFinite
        THEN out.k = "dec" /\ Len(out.frac) = 2 /\ out.suffix = " UZS"
        ELSE out.k = "InvalidAmount"

\* the finite half of C21 alone
C21_FiniteTwoDigits ==
  (formatted.currency # <<>> /\ ParsesFinite) =>
    LET out == formatted.currency[1]
    IN  /\ out.k = "dec" /\ Len(out.frac) = 2 /\ out.suffix = " UZS"
        /\ Abs(1000 * out.whole + 100 * out.frac[1] + 10 * out.frac[2]
               - Abs(amount.milli)) <= 5

\* the thousandths a sequence of at most three fractional digits stands for
FracMilli(frac) ==
  LET w == <<100, 10, 1>>
      sum[i \in 0..Len(frac)] == IF i = 0 THEN 0 ELSE sum[i - 1] + frac[i] * w[i]
  IN  sum[Len(frac)]

\* C22: for every argument that parses to a number with at most three
\* fractional digits, formatNumber returns its decimal representation (the
\* same value, the same sign) with at most three fractional digits, none
\* of them a trailing zero, and no fractional part at all when the value
\* is whole; for every argument that does not parse to a number it returns
\* "0".
C22_CompactNumber ==
  formatted.number # <<>> =>
    LET out == formatted.number[1]
        p == parseFloat(amount)
    IN  /\ p.k = "finite" =>
             /\ out.k = "dec" /\ out.suffix = ""
             /\ Len(out.frac) <= 3
             /\ 1000 * out.whole + FracMilli(out.frac) = Abs(p.milli)
             /\ out.neg <=> p.milli < 0
             /\ out.frac # <<>> => out.frac[Len(out.frac)] # 0
             /\ out.frac = <<>> <=> p.milli % 1000 = 0
        /\ p.k = "nan" => out = Formatted("dec", FALSE, 0, <<>>, "")

\* C22 witness: the string "1.500" came out as 1.5, one fractional digit.
C22_Witness ==
  /\ amount = Arg("string", "digits", 1500, "")
  /\ formatted.number = << Formatted("dec", FALSE, 1, <<5>>, "") >>

\* the texts of the println directives of a command stream
Printed(buf) == { buf[i].arg : i \in { j \in 1..Len(buf) : buf[j].op = "println" } }

LinesOf(txt) == { txt[i] : i \in 1..Len(txt) }

\* the lines of the store, register, time and totals sections
SectionLines ==
  { "store.name", "store.address", "store.phone_number", "register.name",
    "opened_at", "closed_at", "totals", "total_expected", "total_actual" }

PaymentEntryLines ==
  { "payment.method", "payment.expected", "payment.actual", "payment.diff" }

\* a complete shift-closure record with an empty payments list, sent while
\* the device is ready
EmptyPaymentsShift(r) ==
  /\ pc[r] # "idle" /\ kind[r] = "shift" /\ resp[r] # NotReadyResp
  /\ ValidShiftDataNoPayments(body[r])
  /\ body[r].hasRegister /\ body[r].hasCashier
  /\ body[r].hasPayments /\ body[r].nPayments = 0

\* C23: a shift closure whose payments list is empty is accepted and
\* rendered without error: it is never answered with an error status, its
\* command stream is committed and holds the store, register, time and
\* totals lines and no payment entry line, and so does the plain text
\* when the fallback builds it.
C23_EmptyPaymentsRendered ==
  \A r \in Requests :
    EmptyPaymentsShift(r) =>
      /\ resp[r].status < 400
      /\ trace[r][1].state = "TryDevice"
      /\ SectionLines \subseteq Printed(committed[r])
      /\ Printed(committed[r]) \cap PaymentEntryLines = {}
      /\ committed[r][Len(committed[r])] = Cut
      /\ (\E i \in 1..Len(trace[r]) : trace[r][i].state = "TrySystemPrinter") =>
           /\ sysCalls[r] = 1
           /\ SectionLines \subseteq LinesOf(content[r])
           /\ LinesOf(content[r]) \cap PaymentEntryLines = {}

\* C23 witness: such a shift closure went to the system printer, which
\* delivered its plain text.
C23_Witness ==
  \E r \in Requests :
    /\ EmptyPaymentsShift(r)
    /\ resp[r] = SystemPrinterResp
    /\ content[r] # <<>>

C24_Step ==
  /\ initialized => isDeviceReady' = isDeviceReady
  /\ windowsPrinterName # NoName => windowsPrinterName' = windowsPrinterName

\* C24: once startup initialization has finished no step changes the
\* device-readiness flag, whatever deliveries fail; and once the cached
\* printer name holds a name no step changes it: a later system-printer
\* call finds that name and does not detect again.
C24_SharedStateWrittenOnce == [][C24_Step]_vars

\* C24 witness: on Windows two requests each called the system printer and
\* had a script succeed, which takes a detected name, after their device
\* commits had failed; the flag is still set and the name still cached.
C24_Witness ==
  /\ platform = "win32" /\ isDeviceReady /\ windowsPrinterName # NoName
  /\ \A r \in Requests :
       /\ sysCalls[r] = 1
       /\ trace[r][1] = T("TryDevice", "failure")
       /\ \E i \in 1..Len(attempts[r]) : attempts[r][i].outcome = "ok"

\* how many times directive d stands in the command stream buf
Count(buf, d) == Cardinality({ i \in 1..Len(buf) : buf[i] = d })

\* the last n elements of a sequence
Last(q, n) == SubSeq(q, Len(q) - n + 1, Len(q))

AlignOps == {"alignLeft", "alignCenter", "alignRight"}

Highest(js) == CHOOSE j \in js : \A k \in js : k <= j

AlignAt(buf, i) ==
  LET js == { j \in 1..(i - 1) : buf[j].op \in AlignOps }
  IN  IF js = {} THEN "left"
      ELSE CASE buf[Highest(js)].op = "alignCenter" -> "center"
             [] buf[Highest(js)].op = "alignRight"  -> "right"
             [] OTHER                               -> "left"

BoldAt(buf, i) ==
  LET js == { j \in 1..(i - 1) : buf[j].op = "bold" }
  IN  IF js = {} THEN FALSE ELSE buf[Highest(js)].arg = "on"

\* positions of the println directives of buf that print the line l
LinesAt(buf, l) == { i \in 1..Len(buf) : buf[i] = P(l) }

\* the enabled components of the given type, in the given list
OfType(type) ==
  { i \in 1..Len(components) :
      components[i].enabled /\ components[i].type = type }

\* the alignment a totals component asks for, right unless it names one of
\* the three alignments
TotalsAlign(c) ==
  IF c.textAlign \in {"left", "center", "right"} THEN c.textAlign ELSE "right"

\* C26: a totals component emits exactly one grand-total line in either
\* target; in the command stream the line is printed right-aligned when
\* the component's textAlign is absent or is not one of left, center,
\* right, and under textAlign otherwise.
C26_TotalsRightByDefault ==
  \A i \in OfType("totals") :
    Cardinality(OfType("totals")) = 1 =>
      /\ "command" \in rendered.targets =>
           /\ Cardinality(LinesAt(rendered.buffer, "total")) = 1
           /\ \A j \in LinesAt(rendered.buffer, "total") :
                AlignAt(rendered.buffer, j) = TotalsAlign(components[i])
      /\ "text" \in rendered.targets =>
           Cardinality({ j \in 1..Len(rendered.textContent) :
                           rendered.textContent[j] = "**total**" }) = 1

\* the same for the components whose textAlign is absent or one of the
\* three alignments
C26_TotalsKnownAlignment ==
  (\A i \in OfType("totals") : components[i].textAlign # "justify")
    => C26_TotalsRightByDefault

\* the enabled text and footer components that carry data.text
TextParts ==
  { i \in OfType("text") \cup OfType("footer") : components[i].data }

\* positions of the println directives that print a line of component c
TextLinesAt(buf, c) ==
  { j \in 1..Len(buf) :
      buf[j].op = "println" /\ \E k \in 1..Len(c.lines) : buf[j].arg = c.lines[k] }

\* the alignment a text or footer component is printed under: its
\* textAlign when the printer has it, left otherwise
TextAlign(c) == IF c.textAlign \in {"center", "right"} THEN c.textAlign ELSE "left"

\* C27: a text or footer component whose text has n lines emits exactly n
\* println directives, in the order of the lines, each executed under the
\* component's alignment and with emphasis on exactly when its fontWeight
\* is bold; once the component is done the printer is left-aligned with
\* emphasis off.
C27_TextLinesStyledThenReset ==
  ("command" \in rendered.targets /\ Cardinality(TextParts) = 1) =>
    \A i \in TextParts :
      LET c == components[i]
          buf == rendered.buffer
          at == TextLinesAt(buf, c)
      IN  /\ Cardinality(at) = Len(c.lines)
          /\ \A j \in at :
               /\ buf[j].arg = c.lines[1 + Cardinality({ k \in at : k < j })]
               /\ AlignAt(buf, j) = TextAlign(c)
               /\ BoldAt(buf, j) <=> c.fontWeight = "bold"
          /\ AlignAt(buf, Highest(at) + 3) = "left"
          /\ ~BoldAt(buf, Highest(at) + 3)

\* C27 witness: a bold text of two lines without textAlign, followed by the
\* totals line, was rendered.
C27_Witness ==
  /\ "command" \in rendered.targets
  /\ Len(components) = 2
  /\ components[1] = C("text", TRUE, 1, "", "bold", FALSE, TRUE, <<"a", "b">>)
  /\ components[2].type = "totals"
  /\ Cardinality(TextLinesAt(rendered.buffer, components[1])) = 2

\* the texts of the println directives of a command stream, in order
Prints(buf) ==
  LET IsPrintln(d) == d.op = "println"
      ps == SelectSeq(buf, IsPrintln)
  IN  [i \in 1..Len(ps) |-> ps[i].arg]

\* the two lines of each of k items: "i. product name", then the indented
\* quantity, price and subtotal of item i
ItemBlock(k) ==
  [n \in 1..(2 * k) |->
     IF n % 2 = 1 THEN ToString((n + 1) \div 2) \o ". item.name"
     ELSE ItemAmounts(n \div 2)]

\* the same block in the plain text, the name lines between bold markers
ItemTextBlock(k) ==
  [n \in 1..(2 * k) |->
     IF n % 2 = 1 THEN "**" \o ItemBlock(k)[n] \o "**" ELSE ItemBlock(k)[n]]

\* the lines of the plain text that belong to an item block
IsItemLine(l) ==
  \E n \in 1..(2 * (MaxLineItems + 1)) : l = ItemTextBlock(MaxLineItems + 1)[n]

\* C28: for a record with k items an itemList component emits exactly 2k
\* lines, in item order: for the i-th item the line "i. product name",
\* printed with emphasis on, directly followed by its indented quantity /
\* price / subtotal line; a totals component that follows emits exactly
\* one line, directly after the block.
C28_ItemBlockThenTotal ==
  Cardinality(OfType("itemList")) = 1 =>
    \A i \in OfType("itemList") :
      LET k == record.nItems
          buf == rendered.buffer
          ps == Prints(buf)
          totalNext == /\ i < Len(components)
                       /\ components[i + 1].type = "totals"
                       /\ components[i + 1].enabled
      IN  /\ "command" \in rendered.targets =>
               /\ k > 0 =>
                    \E f \in 1..(Len(ps) - 2 * k + 1) :
                      /\ SubSeq(ps, f, f + 2 * k - 1) = ItemBlock(k)
                      /\ totalNext => (f + 2 * k <= Len(ps) /\ ps[f + 2 * k] = "total")
               /\ Cardinality({ j \in 1..Len(ps) :
                     \E n \in 1..(2 * (MaxLineItems + 1)) :
                        ps[j] = ItemBlock(MaxLineItems + 1)[n] }) = 2 * k
               /\ \A n \in 1..k : \A j \in LinesAt(buf, ItemBlock(k)[2 * n - 1]) :
                     BoldAt(buf, j)
               /\ Cardinality(LinesAt(buf, "total")) = Cardinality(OfType("totals"))
          /\ "text" \in rendered.targets =>
               SelectSeq(rendered.textContent, IsItemLine) = ItemTextBlock(k)

\* C28 witness: an item list followed by the totals was rendered for a
\* record with two items, to four item lines and the total line.
C28_Witness ==
  /\ rendered.targets = {"command", "text"}
  /\ record.nItems = 2
  /\ Len(components) = 2
  /\ components[1].type = "itemList" /\ components[2].type = "totals"
  /\ Len(Prints(rendered.buffer)) = 5
  /\ Prints(rendered.buffer)[5] = "total"

\* a component with nothing to show for the record: an item list over no
\* items, a payment list over an empty or absent list, a text or footer
\* without data.text
Hollow(c) ==
  \/ c.type = "itemList" /\ record.nItems = 0
  \/ c.type = "paymentList" /\ (~record.hasPayments \/ record.nPayments = 0)
  \/ c.type \in {"text", "footer"} /\ ~c.data

NotHollow(c) == ~Hollow(c)

\* the directives of a command stream that put a line on the paper
PaperLines(buf) ==
  LET OnPaper(d) == d.op \in {"println", "newLine", "drawLine", "cut"}
  IN  SelectSeq(buf, OnPaper)

\* C29: an itemList over an empty item list, a paymentList over an empty
\* or absent payment list and a text or footer without data.text put no
\* line into either rendering and raise no error: the lines of both
\* renderings are those of the template without these components, the
\* command stream reaching its cut.
C29_HollowComponentsEmitNothing ==
  /\ "command" \in rendered.targets =>
       /\ PaperLines(rendered.buffer) =
            PaperLines(Run(TemplateSteps(SelectSeq(components, NotHollow), record),
                           record).buf)
       /\ rendered.buffer[Len(rendered.buffer)] = Cut
       /\ (\A i \in 1..Len(components) : Hollow(components[i])) =>
            PaperLines(rendered.buffer) = << NL, NL, Cut >>
  /\ "text" \in rendered.targets =>
       /\ rendered.textContent =
            TemplateText(SelectSeq(components, NotHollow), record)
       /\ (\A i \in 1..Len(components) : Hollow(components[i])) =>
            rendered.textContent = << "", "" >>

\* C29 witness: a payment list over a record without payments, followed by
\* the totals, was rendered to the total line alone in both targets.
C29_Witness ==
  /\ rendered.targets = {"command", "text"}
  /\ ~record.hasPayments
  /\ Len(components) = 2
  /\ components[1].type = "paymentList" /\ components[2].type = "totals"
  /\ Prints(rendered.buffer) = << "total" >>
  /\ rendered.textContent = << "**total**", "", "" >>

KnownTypes ==
  {"logo", "text", "footer", "divider", "itemList", "paymentList", "totals"}

IsKnown(c) == c.type \in KnownTypes

\* C30: a component of a type other than logo, text, footer, divider,
\* itemList, paymentList and totals is skipped silently in both targets:
\* the command stream, directive by directive, and the plain text are
\* those of the template without it, and the command stream reaches its
\* cut; a template of such components only renders the bare trailers.
C30_UnknownTypeSkipped ==
  /\ "command" \in rendered.targets =>
       /\ rendered.buffer =
            Run(TemplateSteps(SelectSeq(components, IsKnown), record), record).buf
       /\ rendered.buffer[Len(rendered.buffer)] = Cut
       /\ (\A i \in 1..Len(components) : ~IsKnown(components[i])) =>
            rendered.buffer = << NL, NL, Cut >>
  /\ "text" \in rendered.targets =>
       /\ rendered.textContent =
            TemplateText(SelectSeq(components, IsKnown), record)
       /\ (\A i \in 1..Len(components) : ~IsKnown(components[i])) =>
            rendered.textContent = << "", "" >>

\* C30 witness: a component of type qr, enabled and carrying text and
\* styles, stood before a text; both targets were rendered.
C30_Witness ==
  /\ rendered.targets = {"command", "text"}
  /\ Len(components) = 2
  /\ components[1].type = "qr" /\ components[1].enabled
  /\ components[2].type = "text" /\ components[2].data
  /\ Len(Prints(rendered.buffer)) = Len(components[2].lines)

\* --------------------------------------------------------------- C31
\* C31: rendering a sale receipt never mutates the supplied template: in
\* every step of the renderer, for the command stream and for the plain
\* text, the component list of the template keeps the same elements in the
\* same order with the same field values.
C31_TemplateNeverMutated == [][components' = components]_vars

\* C31 witness: a template listed out of order, with a disabled component,
\* was rendered for both targets from its enabled components in sorted
\* order, and is still listed as it was.
C31_Witness ==
  /\ rendered.targets = {"command", "text"}
  /\ Len(components) = 3
  /\ components[1].order > components[2].order
  /\ components[1].enabled /\ components[2].enabled /\ ~components[3].enabled
  /\ components[3].type = "text"
  /\ components[1].type = "totals" /\ components[2].type = "divider"
  /\ Prints(rendered.buffer) = << "total" >>
  /\ rendered.buffer[1] = Line

\* --------------------------------------------------------------- C32
\* the request reached printer.execute()
Committed(r) == trace[r] # <<>> /\ trace[r][1].state = "TryDevice"

\* the directives the handler of request r issues, from the one after its
\* printer.clear() to its printer.cut()
OwnDirectives(r) == Directives(StepsOf(kind[r], body[r]))

C32_OwnBuffer ==
  \A r \in Requests :
    Committed(r) =>
      /\ committed[r] = OwnDirectives(r)
      /\ Count(committed[r], Cut) = 1
      /\ committed[r][Len(committed[r])] = Cut

C32_Step ==
  \A r \in Requests : Committed(r) => committed'[r] = committed[r]

\* C32: under every interleaving of the requests, the command buffer a
\* request hands to printer.execute() holds the directives of that request
\* only, from the one after its own clear to its own cut, which occurs once
\* and stands last; nothing another request or the start-up test renders is
\* in it, and no later step of any request alters what was handed over.
C32_CommittedBufferIsOwn == [] C32_OwnBuffer /\ [][C32_Step]_vars

\* C32 witness: a shift closure and a sale receipt are both awaiting their
\* commit; the printer object holds the rendering of the second, and each
\* was handed its own.
C32_Witness ==
  /\ inflight = {1, 2}
  /\ kind[1] = "shift" /\ kind[2] = "sale"
  /\ pc[1] = "TryDevice" /\ pc[2] = "TryDevice"
  /\ printerBuffer = committed[2]
  /\ committed[1] # committed[2]
  /\ committed[1] = OwnDirectives(1)

\* --------------------------------------------------------------- C33
\* the components the command-stream loop runs over
Processed == EnabledSorted(components)

\* the number of directives the components before the i-th one emit
EmittedBefore(i) ==
  Len(Directives(ComponentsSteps(SubSeq(Processed, 1, i - 1), record)))

\* the printer is left-aligned with emphasis off when directive i of buf
\* is executed
DefaultStyleAt(buf, i) == AlignAt(buf, i) = "left" /\ ~BoldAt(buf, i)

\* C33: in the command stream of a sale receipt the printer is
\* left-aligned with emphasis off when the rendering of each component
\* starts: no component leaves an alignment or emphasis behind for the
\* components after it.
C33_DefaultStyleAtComponentStart ==
  "command" \in rendered.targets =>
    \A i \in 1..Len(Processed) :
      DefaultStyleAt(rendered.buffer, EmittedBefore(i) + 1)

\* the same for the templates without a logo that carries data.url
C33_DefaultStyleWithoutLogo ==
  (\A i \in 1..Len(components) :
      ~(components[i].type = "logo" /\ components[i].enabled /\ components[i].data))
    => C33_DefaultStyleAtComponentStart

\* --------------------------------------------------------------- C34
\* the rule a drawLine directive prints on 32 columns
Rule == "--------------------------------"

\* The lines a command stream puts on the paper, the cut left out: the
\* text of each println, a rule for drawLine, an empty line for newLine,
\* each with whether it is a printed line executed with emphasis on.
StreamLines(buf) ==
  LET at == { i \in 1..Len(buf) : buf[i].op \in {"println", "drawLine", "newLine"} }
      Nth(n) == CHOOSE i \in at : Cardinality({ j \in at : j < i }) = n - 1
  IN  [n \in 1..Cardinality(at) |->
         [line |-> CASE buf[Nth(n)].op = "println"  -> buf[Nth(n)].arg
                     [] buf[Nth(n)].op = "drawLine" -> Rule
                     [] OTHER                       -> "",
          bold |-> buf[Nth(n)].op = "println" /\ BoldAt(buf, Nth(n))]]

\* the forms a line takes in the plain text: bare, or with a bold marker
\* before it, after it or on both sides
WithMarker(l) == { "**" \o l, l \o "**", "**" \o l \o "**" }

\* the plain text has the lines of the command stream, markers aside
SameLines(txt, ls) ==
  /\ Len(txt) = Len(ls)
  /\ \A n \in 1..Len(ls) : txt[n] = ls[n].line \/ txt[n] \in WithMarker(ls[n].line)

\* a line of the plain text carries a marker exactly when the command
\* stream prints it with emphasis on
SameEmphasis(txt, ls) ==
  \A n \in 1..Len(ls) : (txt[n] \in WithMarker(ls[n].line)) <=> ls[n].bold

\* C34: for every template and record the plain text of a sale receipt
\* has, line by line, the printed lines, rules and blank lines of its
\* command stream (alignment, bold markers and the cut aside), and a line
\* carries a bold marker in the plain text exactly when the command stream
\* prints it bold.
C34_PlainTextMirrorsCommandStream ==
  rendered.targets = {"command", "text"} =>
    /\ SameLines(rendered.textContent, StreamLines(rendered.buffer))
    /\ SameEmphasis(rendered.textContent, StreamLines(rendered.buffer))

\* the first half alone: the same lines in the same order
C34_SameLineSequence ==
  rendered.targets = {"command", "text"} =>
    SameLines(rendered.textContent, StreamLines(rendered.buffer))

\* --------------------------------------------------------------- C35
\* a sale request that passed the readiness and validation checks and
\* whose record makes the plain-text builder throw
SaleTextThrows(r) ==
  /\ pc[r] # "idle" /\ kind[r] = "sale"
  /\ resp[r] # NotReadyResp /\ ~Invalid(kind[r], body[r])
  /\ TextThrows(kind[r], body[r])

C35_TextFailureFailsBeforeCommit ==
  \A r \in Requests :
    SaleTextThrows(r) =>
      /\ ~Committed(r) /\ pc[r] = "Done"
      /\ resp[r] = PrintFailedResp
      /\ sysCalls[r] = 0 /\ scratch[r] = "" /\ attempts[r] = <<>>

\* for no endpoint does the plain-text build throw after a commit was
\* attempted
C35_NoTextFailureAfterCommit ==
  \A r \in Requests : Committed(r) => ~TextThrows(kind[r], body[r])
====
